---- MODULE Spec2Model ----
(***************************************************************************)
(* Model of the JARVIS assistant: the core coordinator (jarvis_core.py),   *)
(* the speech synthesis wrapper (speech_engine.py), the camera manager     *)
(* (camera_manager.py), the AI client (openrouter_client.py) and the       *)
(* configuration store (config.py).                                        *)
(***************************************************************************)
EXTENDS Integers, Sequences, FiniteSets, TLC

\* ------------------------------------------------------------------ bounds
\* commands the producers may enqueue in the concurrent specification (Spec)
MaxCommands == 2
\* commands enqueued in the dispatch specification (SpecDispatch: every text)
MaxDispatch == 1
\* commands enqueued in the history specification (SpecHistory: long histories)
MaxHistoryCommands == 4
\* _listen_for_command threads alive at once
MaxListeners == 2
\* camera capture-loop threads alive at once
MaxLoops == 2
\* threads calling SpeechEngine.speak
MaxSpeakers == 2
\* photo files written
MaxPhotos == 2

\* ------------------------------------------------------------ text helpers
\* Python's None
None == "<None>"

\* truthiness of an Optional[str]: None and "" are falsy
Truthy(s) == s # None /\ s # ""

\* the characters of the command texts, of the keywords matched on them and of
\* the configuration keys
Chars(s) ==
    CASE s = "hello" -> <<"h","e","l","l","o">>
      [] s = "ligar câmera" -> <<"l","i","g","a","r"," ","c","â","m","e","r","a">>
      [] s = "Desligar Camera" -> <<"D","e","s","l","i","g","a","r"," ","C","a","m","e","r","a">>
      [] s = "desativar camera" -> <<"d","e","s","a","t","i","v","a","r"," ","c","a","m","e","r","a">>
      [] s = "turn off camera" -> <<"t","u","r","n"," ","o","f","f"," ","c","a","m","e","r","a">>
      [] s = "tirar foto" -> <<"t","i","r","a","r"," ","f","o","t","o">>
      [] s = "aumentar volume" -> <<"a","u","m","e","n","t","a","r"," ","v","o","l","u","m","e">>
      [] s = "volume down" -> <<"v","o","l","u","m","e"," ","d","o","w","n">>
      [] s = "som mudo" -> <<"s","o","m"," ","m","u","d","o">>
      [] s = "idioma inglês" -> <<"i","d","i","o","m","a"," ","i","n","g","l","ê","s">>
      [] s = "language portuguese" -> <<"l","a","n","g","u","a","g","e"," ","p","o","r","t","u","g","u","e","s","e">>
      [] s = "idioma espanhol" -> <<"i","d","i","o","m","a"," ","e","s","p","a","n","h","o","l">>
      [] s = "camera volume mute" -> <<"c","a","m","e","r","a"," ","v","o","l","u","m","e"," ","m","u","t","e">>
      [] s = "picture language english" -> <<"p","i","c","t","u","r","e"," ","l","a","n","g","u","a","g","e"," ","e","n","g","l","i","s","h">>
      [] s = "what language" -> <<"w","h","a","t"," ","l","a","n","g","u","a","g","e">>
      [] s = "volume up language english" -> <<"v","o","l","u","m","e"," ","u","p"," ","l","a","n","g","u","a","g","e"," ","e","n","g","l","i","s","h">>
      [] s = "câmera" -> <<"c","â","m","e","r","a">>
      [] s = "camera" -> <<"c","a","m","e","r","a">>
      [] s = "foto" -> <<"f","o","t","o">>
      [] s = "picture" -> <<"p","i","c","t","u","r","e">>
      [] s = "ligar" -> <<"l","i","g","a","r">>
      [] s = "ativar" -> <<"a","t","i","v","a","r">>
      [] s = "turn on" -> <<"t","u","r","n"," ","o","n">>
      [] s = "desligar" -> <<"d","e","s","l","i","g","a","r">>
      [] s = "desativar" -> <<"d","e","s","a","t","i","v","a","r">>
      [] s = "turn off" -> <<"t","u","r","n"," ","o","f","f">>
      [] s = "capturar" -> <<"c","a","p","t","u","r","a","r">>
      [] s = "volume" -> <<"v","o","l","u","m","e">>
      [] s = "som" -> <<"s","o","m">>
      [] s = "aumentar" -> <<"a","u","m","e","n","t","a","r">>
      [] s = "increase" -> <<"i","n","c","r","e","a","s","e">>
      [] s = "up" -> <<"u","p">>
      [] s = "diminuir" -> <<"d","i","m","i","n","u","i","r">>
      [] s = "decrease" -> <<"d","e","c","r","e","a","s","e">>
      [] s = "down" -> <<"d","o","w","n">>
      [] s = "mudo" -> <<"m","u","d","o">>
      [] s = "mute" -> <<"m","u","t","e">>
      [] s = "idioma" -> <<"i","d","i","o","m","a">>
      [] s = "language" -> <<"l","a","n","g","u","a","g","e">>
      [] s = "inglês" -> <<"i","n","g","l","ê","s">>
      [] s = "english" -> <<"e","n","g","l","i","s","h">>
      [] s = "português" -> <<"p","o","r","t","u","g","u","ê","s">>
      [] s = "portuguese" -> <<"p","o","r","t","u","g","u","e","s","e">>
      [] s = "espanhol" -> <<"e","s","p","a","n","h","o","l">>
      [] s = "spanish" -> <<"s","p","a","n","i","s","h">>
      [] s = "jarvis" -> <<"j","a","r","v","i","s">>
      [] s = "voice" -> <<"v","o","i","c","e">>
      [] s = "rate" -> <<"r","a","t","e">>
      [] s = "engine" -> <<"e","n","g","i","n","e">>
      [] s = "fast" -> <<"f","a","s","t">>
      [] s = "home" -> <<"h","o","m","e">>
      [] s = "lights" -> <<"l","i","g","h","t","s">>
      [] s = "on" -> <<"o","n">>
      [] s = "voice.rate" -> <<"v","o","i","c","e",".","r","a","t","e">>
      [] s = "voice.rate.fast" -> <<"v","o","i","c","e",".","r","a","t","e",".","f","a","s","t">>
      [] s = "home.lights.on" -> <<"h","o","m","e",".","l","i","g","h","t","s",".","o","n">>
      [] s = "voice.engine" -> <<"v","o","i","c","e",".","e","n","g","i","n","e">>

\* str.lower(), one character
LowerChar(c) ==
    CASE c = "C" -> "c"
      [] c = "D" -> "d"
      [] OTHER -> c

\* str.lower()
Lower(cs) == [i \in 1..Len(cs) |-> LowerChar(cs[i])]

\* Python's `needle in hay` on strings: substring search
Contains(hay, needle) ==
    \E i \in 0..(Len(hay) - Len(needle)) :
        SubSeq(hay, i + 1, i + Len(needle)) = needle

\* `kw in command_lower`
Has(command_lower, kw) == Contains(command_lower, Chars(kw))

\* every command text of the model
AllTexts ==
    { "hello", "ligar câmera", "Desligar Camera", "desativar camera",
      "turn off camera", "tirar foto", "aumentar volume", "volume down",
      "som mudo", "idioma inglês", "language portuguese", "idioma espanhol",
      "camera volume mute", "picture language english", "what language",
      "volume up language english" }

\* the texts of the concurrent specification: an AI command and one that raises
ConcTexts == { "hello", "tirar foto" }

\* the texts of the history specification
HistoryTexts == { "hello", "tirar foto" }

\* languages.supported
Languages == { "pt-BR", "en-US", "es-ES", "fr-FR", "de-DE" }

\* languages.default
DefaultLanguage == "pt-BR"

\* a language code with no entry in fallback_responses
UnlistedLanguage == "it-IT"

\* ---------------------------------------------------------- camera manager
\* no exception raised
NoError == ""

\* CameraManager.__init__: the camera fields. camera is None, "unopened" (a
\* VideoCapture that failed to open) or "open"; current_frame is whether a frame
\* is stored; loops / holding count the capture-loop threads at the top of the
\* loop / between camera.read() and the store of current_frame; photos counts
\* the files written by take_photo; rec_loops counts the recording-loop threads
\* that have not returned.
NewCamera ==
    [ is_active |-> FALSE, is_recording |-> FALSE, camera |-> None,
      current_frame |-> FALSE, loops |-> 0, holding |-> 0, photos |-> 0,
      rec_loops |-> 0 ]

\* CameraManager.start_camera; openOk is camera.isOpened()
start_camera(c, openOk) ==
    IF c.is_active THEN [ cam |-> c, ret |-> TRUE ]
    ELSE IF ~openOk THEN [ cam |-> [c EXCEPT !.camera = "unopened"], ret |-> FALSE ]
    ELSE [ cam |-> [c EXCEPT !.camera = "open", !.is_active = TRUE,
                             !.loops = @ + 1],
           ret |-> TRUE ]

\* the outcomes of capture_thread.join(timeout=2) in stop_camera: the thread
\* ended from the top of its loop ("loop"), ended after storing the frame it held
\* ("hold"), or is still alive when the timeout expires ("timeout")
JoinOutcomes(c) ==
    { j \in {"loop", "hold", "timeout"} :
        \/ j = "loop" /\ c.loops > 0
        \/ j = "hold" /\ c.holding > 0
        \/ j = "timeout" /\ c.loops + c.holding < MaxLoops }

\* CameraManager.stop_camera; join is the outcome of the thread join
stop_camera(c, join) ==
    IF ~c.is_active THEN c
    ELSE [c EXCEPT !.is_active = FALSE, !.is_recording = FALSE,
                   !.loops = IF join = "loop" THEN @ - 1 ELSE @,
                   !.holding = IF join = "hold" THEN @ - 1 ELSE @,
                   !.camera = None, !.current_frame = FALSE]

\* CameraManager.start_recording; writerOk is whether cv2.VideoWriter(...)
\* returns normally
VideoFile == "output/videos/jarvis_video.mp4"

start_recording(c, writerOk) ==
    IF ~c.is_active
    THEN [ cam |-> c, raised |-> "Camera is not active", filename |-> None ]
    ELSE IF c.is_recording
    THEN [ cam |-> c, raised |-> "Already recording", filename |-> None ]
    ELSE IF ~writerOk
    THEN [ cam |-> c, raised |-> "VideoWriter failed", filename |-> None ]
    ELSE [ cam |-> [c EXCEPT !.is_recording = TRUE, !.rec_loops = @ + 1],
           raised |-> NoError, filename |-> VideoFile ]

\* the outcomes of recording_thread.join(timeout=2) in stop_recording: no
\* thread is alive ("none"), the thread returned ("exited"), or it is still
\* alive when the timeout expires ("timeout")
RecordingJoinOutcomes(c) ==
    IF c.rec_loops = 0 THEN { "none" } ELSE { "exited", "timeout" }

\* CameraManager.stop_recording
stop_recording(c, join) ==
    IF ~c.is_recording THEN c
    ELSE [c EXCEPT !.is_recording = FALSE,
                   !.rec_loops = IF join = "exited" THEN @ - 1 ELSE @]

\* CameraManager.take_photo; writeOk is whether cv2.imwrite returns normally
PhotoFile == "output/photos/jarvis_photo.jpg"

\* take_photo without its test of is_active
take_photo_unguarded(c, writeOk) ==
    IF ~c.current_frame
    THEN [ cam |-> c, raised |-> "No frame available", frame_read |-> TRUE,
           filename |-> None ]
    ELSE IF ~writeOk
    THEN [ cam |-> c, raised |-> "imwrite failed", frame_read |-> TRUE,
           filename |-> None ]
    ELSE [ cam |-> [c EXCEPT !.photos = @ + 1], raised |-> NoError,
           frame_read |-> TRUE, filename |-> PhotoFile ]

\* CameraManager.take_photo; frame_read is whether get_current_frame was called
take_photo(c, writeOk) ==
    IF ~c.is_active
    THEN [ cam |-> c, raised |-> "Camera is not active", frame_read |-> FALSE,
           filename |-> None ]
    ELSE IF ~c.current_frame
    THEN [ cam |-> c, raised |-> "No frame available", frame_read |-> TRUE,
           filename |-> None ]
    ELSE IF ~writeOk
    THEN [ cam |-> c, raised |-> "imwrite failed", frame_read |-> TRUE,
           filename |-> None ]
    ELSE [ cam |-> [c EXCEPT !.photos = @ + 1], raised |-> NoError,
           frame_read |-> TRUE, filename |-> PhotoFile ]

\* ---------------------------------------------------------------- AI client
\* OpenRouterClient._get_fallback_response
get_fallback_response(language) ==
    CASE language = "pt-BR" -> "Desculpe, estou com dificuldades para processar sua solicitação no momento. Tente novamente em alguns instantes."
      [] language = "en-US" -> "Sorry, I'm having trouble processing your request right now. Please try again in a moment."
      [] language = "es-ES" -> "Lo siento, tengo problemas para procesar tu solicitud en este momento. Inténtalo de nuevo en unos momentos."
      [] language = "fr-FR" -> "Désolé, j'ai des difficultés à traiter votre demande en ce moment. Veuillez réessayer dans quelques instants."
      [] language = "de-DE" -> "Entschuldigung, ich habe gerade Schwierigkeiten, Ihre Anfrage zu bearbeiten. Versuchen Sie es in einem Moment noch einmal."
      [] OTHER -> "Sorry, I'm having trouble processing your request right now. Please try again in a moment."

\* the content of a successful completion, after strip()
AIReply == "resposta da IA"

\* what the HTTP round trip of chat_completion can do: a completion, a completion
\* whose content is blank once stripped, a requests exception
AIOutcomes ==
    { "ok", "blank", "transport_error", "http_error", "undecodable",
      "no_choices", "bad_shape" }

\* chat_completion: the exception raised inside the try block, if any: by
\* requests.post, raise_for_status, response.json, or the subscripts and strip()
\* on a body of an unexpected shape
raised_in_try(outcome) ==
    CASE outcome = "transport_error" -> "ConnectionError"
      [] outcome = "http_error" -> "HTTPError"
      [] outcome = "undecodable" -> "JSONDecodeError"
      [] outcome = "bad_shape" -> "KeyError"
      [] OTHER -> NoError

\* the exceptions that are requests.exceptions.RequestException
RequestExceptions == { "ConnectionError", "HTTPError" }

\* a chat_completion without its last clause, `except Exception`
chat_completion_raised_uncaught(outcome) ==
    IF raised_in_try(outcome) \in RequestExceptions \cup { "JSONDecodeError", NoError }
    THEN NoError
    ELSE raised_in_try(outcome)

\* chat_completion: the exception it lets escape. Its except clauses take
\* RequestException, json.JSONDecodeError and Exception.
chat_completion_raised(outcome) ==
    IF raised_in_try(outcome) = NoError THEN NoError
    ELSE IF raised_in_try(outcome) \in RequestExceptions THEN NoError
    ELSE IF raised_in_try(outcome) = "JSONDecodeError" THEN NoError
    ELSE NoError

\* a completion whose fallback ignores the requested language
chat_completion_default_language(outcome, language) ==
    IF outcome = "ok" THEN AIReply
    ELSE IF outcome = "blank" THEN ""
    ELSE get_fallback_response("en-US")

\* OpenRouterClient.chat_completion: the returned text for an outcome of the POST
chat_completion(outcome, language) ==
    IF outcome = "ok" THEN AIReply
    ELSE IF outcome = "blank" THEN ""
    ELSE get_fallback_response(language)

\* -------------------------------------------------- coordinator, pure parts
\* the number of trailing turns _build_context reads
HistoryWindow == 6

\* JarvisCore._build_context: system_prompts.get(language, system_prompts['pt-BR'])
system_prompt(language) ==
    CASE language = "en-US" -> [ role |-> "system", content |-> "You are JARVIS, an intelligent virtual assistant. Be helpful, concise and friendly. Always respond in English." ]
      [] language = "es-ES" -> [ role |-> "system", content |-> "Eres JARVIS, un asistente virtual inteligente. Sé útil, conciso y amigable. Responde siempre en español." ]
      [] OTHER -> [ role |-> "system", content |-> "Você é JARVIS, um assistente virtual inteligente. Seja útil, conciso e amigável. Responda sempre em português brasileiro." ]

\* JarvisCore._build_context: conversation_history[-6:] when longer than 6
recent_history(history) ==
    IF Len(history) > HistoryWindow
    THEN SubSeq(history, Len(history) - HistoryWindow + 1, Len(history))
    ELSE history

\* JarvisCore._build_context
build_context(language, history) ==
    <<system_prompt(language)>> \o
    [ i \in 1..Len(recent_history(history)) |->
        [ role |-> recent_history(history)[i].role,
          content |-> recent_history(history)[i].content ] ]

\* JarvisCore._process_with_ai: the messages handed to chat_completion
ai_messages(text, language, history) ==
    build_context(language, history) \o <<[ role |-> "user", content |-> text ]>>

\* the result of one group of _handle_system_commands
SysResult(resp, err, c, lang, acts) ==
    [ response |-> resp, raised |-> err, cam |-> c, current_language |-> lang,
      actions |-> acts ]

\* _handle_system_commands, camera group: the action its conditions select, or
\* None when the group falls through
camera_commands(cl) ==
    IF ~(Has(cl, "câmera") \/ Has(cl, "camera") \/ Has(cl, "foto") \/ Has(cl, "picture"))
    THEN None
    ELSE IF Has(cl, "ligar") \/ Has(cl, "ativar") \/ Has(cl, "turn on")
    THEN "start_camera"
    ELSE IF Has(cl, "desligar") \/ Has(cl, "desativar") \/ Has(cl, "turn off")
    THEN "stop_camera"
    ELSE IF Has(cl, "foto") \/ Has(cl, "picture") \/ Has(cl, "capturar")
    THEN "take_photo"
    ELSE None

\* _handle_system_commands, volume group
volume_commands(cl) ==
    IF ~(Has(cl, "volume") \/ Has(cl, "som"))
    THEN None
    ELSE IF Has(cl, "aumentar") \/ Has(cl, "increase") \/ Has(cl, "up")
    THEN "increase_volume"
    ELSE IF Has(cl, "diminuir") \/ Has(cl, "decrease") \/ Has(cl, "down")
    THEN "decrease_volume"
    ELSE IF Has(cl, "mudo") \/ Has(cl, "mute")
    THEN "mute_volume"
    ELSE None

\* a language group that knows English only
language_commands_english_only(cl) ==
    IF ~(Has(cl, "idioma") \/ Has(cl, "language"))
    THEN None
    ELSE IF Has(cl, "inglês") \/ Has(cl, "english")
            \/ Has(cl, "português") \/ Has(cl, "portuguese")
            \/ Has(cl, "espanhol") \/ Has(cl, "spanish")
    THEN "en-US"
    ELSE None

\* _handle_system_commands, language group
language_commands(cl) ==
    IF ~(Has(cl, "idioma") \/ Has(cl, "language"))
    THEN None
    ELSE IF Has(cl, "inglês") \/ Has(cl, "english")
    THEN "en-US"
    ELSE IF Has(cl, "português") \/ Has(cl, "portuguese")
    THEN "pt-BR"
    ELSE IF Has(cl, "espanhol") \/ Has(cl, "spanish")
    THEN "es-ES"
    ELSE None

\* _handle_system_commands: what the phrases of the camera, the volume and the
\* language group select in a command, None where they select nothing
group_selections(command) ==
    LET cl == Lower(Chars(command))
    IN  << camera_commands(cl), volume_commands(cl), language_commands(cl) >>

\* a dispatch that tries language, then volume, then camera
system_match_language_first(command) ==
    LET cl == Lower(Chars(command)) IN
    IF language_commands(cl) # None THEN language_commands(cl)
    ELSE IF volume_commands(cl) # None THEN volume_commands(cl)
    ELSE camera_commands(cl)

\* _handle_system_commands: camera, then volume, then language; the first group
\* whose conditions select an action decides
system_match(command) ==
    LET cl == Lower(Chars(command)) IN
    IF camera_commands(cl) # None THEN camera_commands(cl)
    ELSE IF volume_commands(cl) # None THEN volume_commands(cl)
    ELSE language_commands(cl)

\* _handle_system_commands: the selected action carried out. env gives
\* camera.isOpened(), the outcome of the thread join and that of cv2.imwrite.
system_action(match, c, lang, env) ==
    CASE match = "start_camera" ->
           SysResult("Câmera ativada com sucesso.", NoError,
                     start_camera(c, env.openOk).cam, lang, <<"start_camera">>)
      [] match = "stop_camera" ->
           SysResult("Câmera desativada.", NoError,
                     stop_camera(c, env.join), lang, <<"stop_camera">>)
      [] match = "take_photo" ->
           LET p == take_photo(c, env.writeOk) IN
           IF p.raised # NoError
           THEN SysResult(None, p.raised, p.cam, lang, <<"take_photo">>)
           ELSE SysResult("Foto capturada e salva como output/photos/jarvis_photo.jpg.",
                          NoError, p.cam, lang, <<"take_photo">>)
      [] match = "increase_volume" ->
           SysResult("Volume aumentado.", NoError, c, lang, <<"increase_volume">>)
      [] match = "decrease_volume" ->
           SysResult("Volume diminuído.", NoError, c, lang, <<"decrease_volume">>)
      [] match = "mute_volume" ->
           SysResult("Som silenciado.", NoError, c, lang, <<"mute_volume">>)
      [] match = "en-US" ->
           SysResult("Language changed to English.", NoError, c, "en-US", <<>>)
      [] match = "pt-BR" ->
           SysResult("Idioma alterado para português.", NoError, c, "pt-BR", <<>>)
      [] match = "es-ES" ->
           SysResult("Idioma cambiado a español.", NoError, c, "es-ES", <<>>)
      [] OTHER -> SysResult(None, NoError, c, lang, <<>>)

\* JarvisCore._handle_system_commands
handle_system_commands(command, c, lang, env) ==
    system_action(system_match(command), c, lang, env)

\* ------------------------------------------------------- coordinator state
VARIABLES
    is_listening,           \* JarvisCore.is_listening
    is_speaking,            \* JarvisCore.is_speaking
    is_processing,          \* JarvisCore.is_processing
    wake_word_detected,     \* JarvisCore.wake_word_detected
    command_queue,          \* JarvisCore.command_queue, oldest first
    conversation_history,   \* JarvisCore.conversation_history
    current_language,       \* JarvisCore.current_language
    ai_client,              \* whether JarvisCore.ai_client is set
    cam,                    \* JarvisCore.camera_manager
    cp_pc,                  \* position of the command-processor thread
    cur,                    \* locals and observed effects of the command in hand
    va_pc,                  \* position of the wake-word thread
    gui_pc,                 \* position of each GUI caller of start_listening
    listeners,              \* running _listen_for_command threads
    puts,                   \* commands put on command_queue so far
    started,                \* arrival numbers of the commands, as processing began
    finished,               \* arrival numbers of the commands, as processing ended
    world,                  \* what the producers may say and how many commands
    photo_call,             \* the last call of CameraManager.take_photo, observed
    se_is_speaking,         \* SpeechEngine.is_speaking
    se_engine,              \* SpeechEngine.engine_type, with GTTS_AVAILABLE
    se_pc,                  \* position of each thread calling SpeechEngine.speak
    se_ret,                 \* how each thread's last SpeechEngine.speak call went
    config,                 \* Config.config
    user_file,              \* the content of config/user_config.json
    last_set,               \* the last call of Config.set and what followed it
    re_is_listening,        \* RecognitionEngine.is_listening
    re_pc,                  \* position of the thread calling listen_for_command
    stop_call,              \* the last call of an engine's stop, observed
    sd,                     \* position and observed effects of JarvisCore.shutdown
    status_call,            \* the last call of JarvisCore.get_status, observed
    boot,                   \* JarvisCore.__init__: how far it got and what it started
    rec_call,               \* the last listen call of the recognition engine, observed
    listen_call,            \* the last _listen_for_command that ended, observed
    mic                     \* RecognitionEngine.microphone and calibrated, set_microphone

coreVars ==
    << is_listening, is_speaking, is_processing, wake_word_detected,
       command_queue, conversation_history, current_language, ai_client, cam,
       cp_pc, cur, va_pc, gui_pc, listeners, puts, started, finished, world >>

\* the speech engine on its own
speechVars == << se_is_speaking, se_engine, se_pc, se_ret >>

\* what the coordinator's threads leave alone
\* the configuration on its own
configVars == << config, user_file, last_set >>

\* the recognition engine on its own, and the calls of stop
stopVars == << re_is_listening, re_pc, stop_call >>

\* the observers and the construction
\* the recognition engine's microphone and the listen calls observed
recVars == << rec_call, listen_call, mic >>

extraVars == << status_call, boot, recVars >>

others == << photo_call, speechVars, configVars, stopVars, sd, extraVars >>

vars == << coreVars, others >>

\* the GUI entry points that call start_listening
GuiCallers == { "wake_jarvis", "start_voice_input" }

\* a CommandMessage; seq is its arrival number on the queue
Command(text, language, seq) == [ text |-> text, language |-> language, seq |-> seq ]

NoCommand == Command("", "", 0)

\* the locals of _process_command for a command just taken, and what it did:
\* status holds the on_status_change events of the command-processor thread,
\* speech how each call of speech_engine.speak ended
NewCur(command_data, history) ==
    [ command_data |-> command_data, language |-> command_data.language,
      system_response |-> None, response |-> None, raised |-> NoError,
      actions |-> <<>>,
      ai_calls |-> 0, ai_outcome |-> None, ai_raised |-> NoError, messages |-> <<>>, spoken |-> <<>>,
      on_command |-> 0, on_response |-> <<>>, on_error |-> <<>>, delivered |-> <<>>,
      base |-> Len(history), language_was |-> current_language,
      selections |-> << None, None, None >>,
      status |-> <<>>, speech |-> <<>> ]

\* self.callbacks[event]: the subscribers of an event in the order of their
\* add_callback calls, the GUI's handler first
Subscribers == << "gui", "plugin" >>

\* a _trigger_callback without its try: the first subscriber that raises ends
\* the loop
trigger_callback_aborting(event, raising) ==
    LET bad == { i \in 1..Len(Subscribers) : Subscribers[i] \in raising } IN
    IF bad = {} THEN [ event |-> event, called |-> Subscribers, raised |-> NoError ]
    ELSE LET first == CHOOSE i \in bad : \A j \in bad : i <= j IN
         [ event |-> event, called |-> SubSeq(Subscribers, 1, first),
           raised |-> "callback error" ]

\* JarvisCore._trigger_callback: every subscriber is called, what one raises is
\* caught and logged
trigger_callback(event, raising) ==
    [ event |-> event, called |-> Subscribers, raised |-> NoError ]

\* a ConversationTurn
Turn(role, content, language) == [ role |-> role, content |-> content, language |-> language ]

\* openrouter.api_key: the default of OPENROUTER_API_KEY, and a key
NoApiKey == ""

ApiKeys == { NoApiKey, "sk-or-v1-key" }

\* an initialize_components that always builds the client
initialize_ai_client_always(api_key) == TRUE

\* initialize_components: `if config.get('openrouter.api_key'):`, whether
\* ai_client is set
initialize_ai_client(api_key) == Truthy(api_key)

\* no call of take_photo observed yet
NoPhotoCall ==
    [ before |-> NewCamera, after |-> NewCamera, raised |-> None,
      frame_read |-> FALSE ]

\* calling the bool CameraManager.is_active: 'bool' object is not callable
CallOfBool == "TypeError"

\* JarvisCore.get_status: the dict it builds, or what building it raises;
\* camera_manager is the CameraManager that initialize_components set, and
\* `self.camera_manager.is_active()` calls its attribute is_active
\* (has_camera_manager: camera_manager is not None, as after construction)
get_status(l, s, p, lang, ai, has_camera_manager, history) ==
    IF has_camera_manager
    THEN [ raised |-> CallOfBool, value |-> None ]
    ELSE [ raised |-> NoError,
           value |-> [ is_listening |-> l, is_speaking |-> s, is_processing |-> p,
                       current_language |-> lang, ai_available |-> ai,
                       camera_active |-> FALSE,
                       conversation_length |-> Len(history) ] ]

\* no _listen_for_command ended yet
NoListenCall ==
    [ result |-> [ text |-> None, raised |-> FALSE ], put |-> FALSE, status |-> <<>> ]

\* no call of get_status observed yet
NoStatusCall == [ called |-> FALSE, raised |-> NoError, value |-> None ]

\* JarvisCore.__init__ and start_background_threads; languages are the values of
\* languages.default, cameras the states of the camera manager to start from,
\* keys the values of openrouter.api_key
\* raising the sets of subscribers whose callbacks raise
InitCoreWith(texts, limit, languages, cameras, keys, raising) ==
    /\ world \in { [ texts |-> texts, limit |-> limit, api_key |-> k, raising |-> r ] :
                    k \in keys, r \in raising }
    /\ is_listening = FALSE
    /\ is_speaking = FALSE
    /\ is_processing = FALSE
    /\ wake_word_detected = FALSE
    /\ command_queue = <<>>
    /\ conversation_history = <<>>
    /\ current_language \in languages
    /\ ai_client = initialize_ai_client(world.api_key)
    /\ cam \in cameras
    /\ cp_pc = "wait"
    /\ cur = NewCur(NoCommand, <<>>)
    /\ va_pc = "check"
    /\ gui_pc = [ g \in GuiCallers |-> "idle" ]
    /\ listeners = 0
    /\ puts = 0
    /\ started = <<>>
    /\ finished = <<>>
    /\ photo_call = NoPhotoCall
    /\ status_call = NoStatusCall
    /\ listen_call = NoListenCall

\* the same with subscribers that return
InitCore(texts, limit, languages, cameras, keys) ==
    InitCoreWith(texts, limit, languages, cameras, keys, { {} })

\* ------------------------------------------------ command-processor thread
\* a get that takes the newest item
QueueGet_newest(q) == [ item |-> q[Len(q)], rest |-> SubSeq(q, 1, Len(q) - 1) ]

\* a get that leaves the item on the queue
QueueGet_peek(q) == [ item |-> Head(q), rest |-> q ]

\* queue.Queue.get: the oldest item and the rest
QueueGet(q) == [ item |-> Head(q), rest |-> Tail(q) ]

\* queue.Queue.put
QueuePut(q, item) == Append(q, item)

\* _command_processor: command_queue.get returns a command
cp_get ==
    /\ cp_pc = "wait"
    /\ command_queue # <<>>
    /\ command_queue' = QueueGet(command_queue).rest
    /\ cur' = NewCur(QueueGet(command_queue).item, conversation_history)
    /\ started' = Append(started, QueueGet(command_queue).item.seq)
    /\ cp_pc' = "begin"
    /\ UNCHANGED << is_listening, is_speaking, is_processing, wake_word_detected,
                    conversation_history, current_language, ai_client, cam,
                    va_pc, gui_pc, listeners, puts, finished, world, others >>

\* a _process_command that keeps only the turns of the context window
cp_begin_truncating ==
    /\ cp_pc = "begin"
    /\ is_processing' = TRUE
    /\ cur' = [cur EXCEPT !.status = Append(@, "processing")]
    /\ conversation_history' =
           recent_history(Append(conversation_history,
                                 Turn("user", cur.command_data.text, cur.language)))
    /\ cp_pc' = "dispatch"
    /\ UNCHANGED << is_listening, is_speaking, wake_word_detected, command_queue,
                    current_language, ai_client, cam, va_pc, gui_pc,
                    listeners, puts, started, finished, world, others >>

\* _process_command: is_processing = True and the user turn
cp_begin ==
    /\ cp_pc = "begin"
    /\ is_processing' = TRUE
    /\ cur' = [cur EXCEPT !.status = Append(@, "processing")]
    /\ conversation_history' =
           Append(conversation_history,
                  Turn("user", cur.command_data.text, cur.language))
    /\ cp_pc' = "dispatch"
    /\ UNCHANGED << is_listening, is_speaking, wake_word_detected, command_queue,
                    current_language, ai_client, cam, va_pc, gui_pc,
                    listeners, puts, started, finished, world, others >>

\* _process_with_ai when the AI call raised
AIErrorResponse == "Desculpe, não consegui processar sua solicitação no momento."

\* _process_with_ai when ai_client is None
NoAIResponse == "Sistema de IA não configurado. Verifique sua chave de API."

\* a dispatch that never short-circuits
use_system_response_never(system_response) == FALSE

\* _process_command: `if system_response:`
use_system_response(system_response) == Truthy(system_response)

\* _process_command: _handle_system_commands, then _process_with_ai up to the
\* call of chat_completion
cp_dispatch ==
    /\ cp_pc = "dispatch"
    /\ \E match \in { system_match(cur.command_data.text) },
          sels \in { group_selections(cur.command_data.text) } :
       \E openOk \in BOOLEAN, join \in JoinOutcomes(cam), writeOk \in BOOLEAN :
         LET r == system_action(
                      match, cam, current_language,
                      [ openOk |-> openOk, join |-> join, writeOk |-> writeOk ])
         IN  /\ cam' = r.cam
             /\ current_language' = r.current_language
             /\ IF r.raised # NoError
                THEN /\ cur' = [cur EXCEPT !.raised = r.raised, !.actions = r.actions,
                                           !.selections = sels]
                     /\ cp_pc' = "except"
                ELSE IF use_system_response(r.response)
                THEN /\ cur' = [cur EXCEPT !.system_response = r.response,
                                           !.response = r.response,
                                           !.actions = r.actions,
                                           !.selections = sels]
                     /\ cp_pc' = "record"
                ELSE IF ~ai_client
                THEN /\ cur' = [cur EXCEPT !.system_response = r.response,
                                           !.actions = r.actions,
                                           !.selections = sels,
                                           !.response = NoAIResponse]
                     /\ cp_pc' = "record"
                ELSE /\ cur' = [cur EXCEPT
                                  !.system_response = r.response,
                                  !.actions = r.actions,
                                  !.selections = sels,
                                  !.messages = ai_messages(cur.command_data.text,
                                                           cur.language,
                                                           conversation_history),
                                  !.ai_calls = @ + 1]
                     /\ cp_pc' = "ai"
    /\ UNCHANGED << is_listening, is_speaking, is_processing, wake_word_detected,
                    command_queue, conversation_history, ai_client, va_pc, gui_pc,
                    listeners, puts, started, finished, world, others >>

\* _process_with_ai: chat_completion returns, or raises into the except clause
cp_ai ==
    /\ cp_pc = "ai"
    /\ \E outcome \in AIOutcomes :
         cur' = [cur EXCEPT !.ai_outcome = outcome,
                            !.ai_raised = chat_completion_raised(outcome),
                            !.response =
                                IF chat_completion_raised(outcome) = NoError
                                THEN chat_completion(outcome, cur.language)
                                ELSE AIErrorResponse]
    /\ cp_pc' = "record"
    /\ UNCHANGED << is_listening, is_speaking, is_processing, wake_word_detected,
                    command_queue, conversation_history, current_language,
                    ai_client, cam, va_pc, gui_pc, listeners, puts, started,
                    finished, world, others >>

\* a _process_command that speaks without recording the assistant turn
cp_record_unrecorded ==
    /\ cp_pc = "record"
    /\ cp_pc' = "speak"
    /\ UNCHANGED << is_listening, is_speaking, is_processing, wake_word_detected,
                    command_queue, conversation_history, current_language,
                    ai_client, cam, cur, va_pc, gui_pc, listeners, puts, started,
                    finished, world, others >>

\* _process_command: the assistant turn
cp_record ==
    /\ cp_pc = "record"
    /\ conversation_history' =
           Append(conversation_history,
                  Turn("assistant", cur.response, cur.language))
    /\ cp_pc' = "speak"
    /\ UNCHANGED << is_listening, is_speaking, is_processing, wake_word_detected,
                    command_queue, current_language, ai_client, cam, cur, va_pc,
                    gui_pc, listeners, puts, started, finished, world, others >>

\* JarvisCore.speak up to the call of speech_engine.speak: nothing for an empty
\* text, else is_speaking = True; `language or self.current_language`
speak_begin(text, language, next_pc, skip_pc) ==
    IF ~Truthy(text)
    THEN /\ cp_pc' = skip_pc
         /\ UNCHANGED << is_speaking, cur >>
    ELSE /\ is_speaking' = TRUE
         /\ cur' = [cur EXCEPT !.spoken =
                       Append(@, [ text |-> text,
                                   language |-> IF Truthy(language) THEN language
                                                ELSE current_language ]),
                               !.status = Append(@, "speaking")]
         /\ cp_pc' = next_pc

\* how a call of speech_engine.speak can end
SpeechOutcomes == { "completed", "raised" }

\* a speak without its finally block
speak_end_no_finally(next_pc) ==
    /\ \E outcome \in SpeechOutcomes :
         cur' = [cur EXCEPT !.speech = Append(@, outcome)]
    /\ cp_pc' = next_pc
    /\ UNCHANGED is_speaking

\* JarvisCore.speak: speech_engine.speak returned or raised; finally
speak_end(next_pc) ==
    /\ \E outcome \in SpeechOutcomes :
         cur' = [cur EXCEPT !.speech = Append(@, outcome),
                            !.status = Append(@, "idle")]
    /\ is_speaking' = FALSE
    /\ cp_pc' = next_pc

\* _process_command: self.speak(response, language) starts
cp_speak ==
    /\ cp_pc = "speak"
    /\ speak_begin(cur.response, cur.language, "speaking", "callbacks")
    /\ UNCHANGED << is_listening, is_processing, wake_word_detected,
                    command_queue, conversation_history, current_language,
                    ai_client, cam, va_pc, gui_pc, listeners, puts, started,
                    finished, world, others >>

\* _process_command: self.speak(response, language) ends
cp_speaking ==
    /\ cp_pc = "speaking"
    /\ speak_end("callbacks")
    /\ UNCHANGED << is_listening, is_processing, wake_word_detected,
                    command_queue, conversation_history, current_language,
                    ai_client, cam, va_pc, gui_pc, listeners, puts, started,
                    finished, world, others >>

\* a _process_command whose try has no finally block
cp_callbacks_no_finally ==
    /\ cp_pc = "callbacks"
    /\ cur' = [cur EXCEPT !.on_command = @ + 1,
                          !.on_response = Append(@, [ text |-> cur.response,
                                                      language |-> cur.language ])]
    /\ finished' = Append(finished, cur.command_data.seq)
    /\ cp_pc' = "wait"
    /\ UNCHANGED << is_listening, is_speaking, is_processing, wake_word_detected,
                    command_queue, conversation_history, current_language,
                    ai_client, cam, va_pc, gui_pc, listeners, puts, started,
                    world, others >>

\* _process_command: on_command, on_response, then finally
cp_callbacks ==
    /\ cp_pc = "callbacks"
    /\ cur' = [cur EXCEPT !.on_command = @ + 1,
                          !.on_response = Append(@, [ text |-> cur.response,
                                                      language |-> cur.language ]),
                          !.delivered = @ \o
                              << trigger_callback("on_command", world.raising),
                                 trigger_callback("on_response", world.raising) >>,
                          !.status = Append(@, "idle")]
    /\ is_processing' = FALSE
    /\ finished' = Append(finished, cur.command_data.seq)
    /\ cp_pc' = "wait"
    /\ UNCHANGED << is_listening, is_speaking, wake_word_detected, command_queue,
                    conversation_history, current_language, ai_client, cam,
                    va_pc, gui_pc, listeners, puts, started, world, others >>

\* the utterance of the except branch of _process_command
ErrorMsg == "Desculpe, ocorreu um erro ao processar seu comando."

\* _process_command, except: self.speak(error_msg) starts
cp_except ==
    /\ cp_pc = "except"
    /\ speak_begin(ErrorMsg, None, "err_speaking", "err_finally")
    /\ UNCHANGED << is_listening, is_processing, wake_word_detected,
                    command_queue, conversation_history, current_language,
                    ai_client, cam, va_pc, gui_pc, listeners, puts, started,
                    finished, world, others >>

\* _process_command, except: self.speak(error_msg) ends
cp_err_speaking ==
    /\ cp_pc = "err_speaking"
    /\ speak_end("err_finally")
    /\ UNCHANGED << is_listening, is_processing, wake_word_detected,
                    command_queue, conversation_history, current_language,
                    ai_client, cam, va_pc, gui_pc, listeners, puts, started,
                    finished, world, others >>

\* an except branch that fires no on_error
cp_err_finally_silent ==
    /\ cp_pc = "err_finally"
    /\ cur' = [cur EXCEPT !.status = Append(@, "idle")]
    /\ is_processing' = FALSE
    /\ finished' = Append(finished, cur.command_data.seq)
    /\ cp_pc' = "wait"
    /\ UNCHANGED << is_listening, is_speaking, wake_word_detected, command_queue,
                    conversation_history, current_language, ai_client, cam,
                    va_pc, gui_pc, listeners, puts, started, world, others >>

\* _process_command, except: on_error, then finally
cp_err_finally ==
    /\ cp_pc = "err_finally"
    /\ cur' = [cur EXCEPT !.on_error = Append(@, cur.raised),
                          !.delivered =
                              Append(@, trigger_callback("on_error", world.raising)),
                          !.status = Append(@, "idle")]
    /\ is_processing' = FALSE
    /\ finished' = Append(finished, cur.command_data.seq)
    /\ cp_pc' = "wait"
    /\ UNCHANGED << is_listening, is_speaking, wake_word_detected, command_queue,
                    conversation_history, current_language, ai_client, cam,
                    va_pc, gui_pc, listeners, puts, started, world, others >>

\* the command-processor thread
CommandProcessor ==
    \/ cp_get \/ cp_begin \/ cp_dispatch \/ cp_ai \/ cp_record \/ cp_speak
    \/ cp_speaking \/ cp_callbacks \/ cp_except \/ cp_err_speaking
    \/ cp_err_finally

\* ---------------------------------------------- listening and its callers
\* callers of start_listening that passed its check and have not yet set the flag
PendingStarts ==
    (IF va_pc = "sl_set" THEN 1 ELSE 0) +
    Cardinality({ g \in GuiCallers : gui_pc[g] = "sl_set" })

\* start_listening: `if self.is_listening or self.is_speaking: return`
start_listening_refused == is_listening \/ is_speaking

\* room for one more _listen_for_command thread
CanStartListener == listeners + PendingStarts < MaxListeners

\* features.wake_word
WakeWord == "jarvis"

\* what listen_for_wake_word can return
WakeHeard == { None, "hello", "jarvis" }

\* _voice_activation_listener: `audio_text and wake_word in audio_text.lower()`
wake_word_in(audio_text) ==
    Truthy(audio_text) /\ Has(Lower(Chars(audio_text)), WakeWord)

\* _voice_activation_listener: the check before each listen attempt
va_check ==
    /\ va_pc = "check"
    /\ ~is_speaking /\ ~is_processing
    /\ va_pc' = "listen"
    /\ UNCHANGED << is_listening, is_speaking, is_processing, wake_word_detected,
                    command_queue, conversation_history, current_language,
                    ai_client, cam, cp_pc, cur, gui_pc, listeners, puts, started,
                    finished, world, others >>

\* _voice_activation_listener: listen_for_wake_word returns; on the wake word,
\* wake_word_detected, on_wake_word and the check of start_listening
va_listen ==
    /\ va_pc = "listen"
    /\ \E audio_text \in WakeHeard :
         IF wake_word_in(audio_text)
         THEN /\ wake_word_detected' = TRUE
              /\ IF start_listening_refused
                 THEN va_pc' = "check"
                 ELSE CanStartListener /\ va_pc' = "sl_set"
         ELSE /\ va_pc' = "check"
              /\ UNCHANGED wake_word_detected
    /\ UNCHANGED << is_listening, is_speaking, is_processing, command_queue,
                    conversation_history, current_language, ai_client, cam,
                    cp_pc, cur, gui_pc, listeners, puts, started, finished,
                    world, others >>

\* start_listening after its check: is_listening = True and the listening thread
start_listening_set ==
    /\ is_listening' = TRUE
    /\ listeners' = listeners + 1

\* start_listening in the wake-word thread, after the check
va_sl_set ==
    /\ va_pc = "sl_set"
    /\ start_listening_set
    /\ va_pc' = "check"
    /\ UNCHANGED << is_speaking, is_processing, wake_word_detected, command_queue,
                    conversation_history, current_language, ai_client, cam,
                    cp_pc, cur, gui_pc, puts, started, finished, world, others >>

\* JarvisMainWindow.wake_jarvis / start_voice_input: the call of start_listening
\* up to its check
gui_start_listening(g) ==
    /\ gui_pc[g] = "idle"
    /\ wake_word_detected' = IF g = "wake_jarvis" THEN TRUE ELSE wake_word_detected
    /\ IF start_listening_refused
       THEN UNCHANGED gui_pc
       ELSE CanStartListener /\ gui_pc' = [gui_pc EXCEPT ![g] = "sl_set"]
    /\ UNCHANGED << is_listening, is_speaking, is_processing, command_queue,
                    conversation_history, current_language, ai_client, cam,
                    cp_pc, cur, va_pc, listeners, puts, started, finished, world, others >>

\* start_listening in a GUI caller, after the check
gui_sl_set(g) ==
    /\ gui_pc[g] = "sl_set"
    /\ start_listening_set
    /\ gui_pc' = [gui_pc EXCEPT ![g] = "idle"]
    /\ UNCHANGED << is_speaking, is_processing, wake_word_detected, command_queue,
                    conversation_history, current_language, ai_client, cam,
                    cp_pc, cur, va_pc, puts, started, finished, world, others >>

\* what listen_for_command can return: a lower-cased transcript, or None
CommandHeard == { t \in world.texts : Lower(Chars(t)) = Chars(t) } \cup { None }

\* how recognition_engine.listen_for_command ends for _listen_for_command:
\* with a transcript or None, or raising
ListenResults ==
    { [ text |-> t, raised |-> FALSE ] : t \in CommandHeard } \cup
    { [ text |-> None, raised |-> TRUE ] }

\* a _listen_for_command that puts nothing
listen_puts_never(result) == FALSE

\* _listen_for_command: `if command_text:` in the try
listen_puts(result) == ~result.raised /\ Truthy(result.text)

\* _listen_for_command: listen_for_command returns or raises, the put, then
\* finally with its 'idle' event
listen_for_command ==
    /\ listeners > 0
    /\ \E result \in ListenResults :
         /\ IF listen_puts(result)
            THEN /\ puts < world.limit
                 /\ command_queue' =
                        QueuePut(command_queue,
                                 Command(result.text, current_language, puts + 1))
                 /\ puts' = puts + 1
            ELSE UNCHANGED << command_queue, puts >>
         /\ listen_call' = [ result |-> result, put |-> listen_puts(result),
                             status |-> << "idle" >> ]
    /\ is_listening' = FALSE
    /\ listeners' = listeners - 1
    /\ UNCHANGED << is_speaking, is_processing, wake_word_detected,
                    conversation_history, current_language, ai_client, cam,
                    cp_pc, cur, va_pc, gui_pc, started, finished, world,
                    photo_call, speechVars, configVars, stopVars, sd, status_call,
                    boot, rec_call, mic >>

\* JarvisMainWindow.send_message (and the put of the interactive test)
send_message ==
    /\ puts < world.limit
    /\ \E message \in world.texts :
         command_queue' =
             QueuePut(command_queue, Command(message, current_language, puts + 1))
    /\ puts' = puts + 1
    /\ UNCHANGED << is_listening, is_speaking, is_processing, wake_word_detected,
                    conversation_history, current_language, ai_client, cam,
                    cp_pc, cur, va_pc, gui_pc, listeners, started, finished,
                    world, others >>

\* ------------------------------------------------- camera, as it runs
coreButCam ==
    << is_listening, is_speaking, is_processing, wake_word_detected,
       command_queue, conversation_history, current_language, ai_client,
       cp_pc, cur, va_pc, gui_pc, listeners, puts, started, finished, world >>

\* JarvisMainWindow.toggle_camera
toggle_camera ==
    /\ IF cam.is_active
       THEN \E join \in JoinOutcomes(cam) : cam' = stop_camera(cam, join)
       ELSE \E openOk \in BOOLEAN : cam' = start_camera(cam, openOk).cam
    /\ UNCHANGED << coreButCam, others >>

\* JarvisMainWindow.take_photo: camera_manager.take_photo(), its exception caught
gui_take_photo ==
    /\ cam.photos < MaxPhotos
    /\ \E writeOk \in BOOLEAN :
         /\ cam' = take_photo(cam, writeOk).cam
         /\ photo_call' = [ before |-> cam, after |-> take_photo(cam, writeOk).cam,
                            raised |-> take_photo(cam, writeOk).raised,
                            frame_read |-> take_photo(cam, writeOk).frame_read ]
    /\ UNCHANGED << coreButCam, sd, speechVars, configVars, stopVars, extraVars >>

\* JarvisMainWindow.update_status, show_system_info: jarvis_core.get_status()
update_status ==
    /\ status_call' =
         [ called |-> TRUE,
           raised |-> get_status(is_listening, is_speaking, is_processing,
                                 current_language, ai_client, TRUE,
                                 conversation_history).raised,
           value |-> get_status(is_listening, is_speaking, is_processing,
                                current_language, ai_client, TRUE,
                                conversation_history).value ]
    /\ UNCHANGED << coreVars, photo_call, speechVars, configVars, stopVars, sd, boot,
                    recVars >>

\* _capture_loop: the loop test and camera.read() of one capture thread
capture_read ==
    /\ cam.loops > 0
    /\ IF cam.is_active /\ cam.camera # None
       THEN cam' = [cam EXCEPT !.loops = @ - 1, !.holding = @ + 1]
       ELSE cam' = [cam EXCEPT !.loops = @ - 1]
    /\ UNCHANGED << coreButCam, others >>

\* _capture_loop: the store of current_frame by a thread that read a frame
capture_store ==
    /\ cam.holding > 0
    /\ cam' = [cam EXCEPT !.holding = @ - 1, !.loops = @ + 1,
                          !.current_frame = TRUE]
    /\ UNCHANGED << coreButCam, others >>

\* a caller of CameraManager.start_recording
cm_start_recording ==
    /\ cam.rec_loops < MaxLoops
    /\ \E writerOk \in BOOLEAN : cam' = start_recording(cam, writerOk).cam
    /\ UNCHANGED << coreButCam, others >>

\* a caller of CameraManager.stop_recording
cm_stop_recording ==
    /\ cam.is_recording
    /\ \E join \in RecordingJoinOutcomes(cam) : cam' = stop_recording(cam, join)
    /\ UNCHANGED << coreButCam, others >>

\* _recording_loop: a recording thread finds is_recording false at its loop
\* test, or breaks out of the loop after an exception, and returns
recording_loop ==
    /\ cam.rec_loops > 0
    /\ \E raised \in BOOLEAN :
         /\ ~cam.is_recording \/ raised
         /\ cam' = [cam EXCEPT !.rec_loops = @ - 1]
    /\ UNCHANGED << coreButCam, others >>

\* ------------------------------------------------------------ speech engine
\* the threads that call SpeechEngine.speak
SpeakThreads == 1..MaxSpeakers

\* engine_type with GTTS_AVAILABLE: "gtts_unavailable" is engine_type 'gtts'
\* without the gTTS import, for which speak reaches neither backend
Engines == { "pyttsx3", "gtts", "gtts_unavailable" }

\* SpeechEngine.__init__
InitSpeech(engines) ==
    /\ se_is_speaking = FALSE
    /\ se_engine \in engines
    /\ se_pc = [ t \in SpeakThreads |-> "idle" ]
    /\ se_ret = [ t \in SpeakThreads |-> "none" ]

\* the threads inside _speak_pyttsx3 or _speak_gtts
InBackend == { t \in SpeakThreads : se_pc[t] = "backend" }

\* SpeechEngine.speak up to the end of the locked block: an empty text returns,
\* a call that finds is_speaking set returns, else is_speaking = True
se_speak(t) ==
    /\ se_pc[t] = "idle"
    /\ \E text \in { "", "JARVIS system test successful" } :
         IF ~Truthy(text)
         THEN /\ se_ret' = [se_ret EXCEPT ![t] = "empty"]
              /\ UNCHANGED << se_is_speaking, se_pc >>
         ELSE IF se_is_speaking
         THEN /\ se_ret' = [se_ret EXCEPT ![t] = "dropped"]
              /\ UNCHANGED << se_is_speaking, se_pc >>
         ELSE /\ se_is_speaking' = TRUE
              /\ se_pc' = [se_pc EXCEPT ![t] = "try"]
              /\ se_ret' = [se_ret EXCEPT ![t] = "accepted"]
    /\ UNCHANGED << coreVars, extraVars, sd, photo_call, configVars, stopVars, se_engine >>

\* SpeechEngine.speak: the try block enters _speak_pyttsx3 or _speak_gtts, or
\* neither for engine_type 'gtts' without gTTS
se_try(t) ==
    /\ se_pc[t] = "try"
    /\ se_pc' = [se_pc EXCEPT ![t] = IF se_engine = "gtts_unavailable"
                                     THEN "finally" ELSE "backend"]
    /\ UNCHANGED << coreVars, extraVars, sd, photo_call, configVars, stopVars, se_is_speaking, se_engine, se_ret >>

\* SpeechEngine.speak: the backend call returns or raises
se_backend(t) ==
    /\ se_pc[t] = "backend"
    /\ se_pc' = [se_pc EXCEPT ![t] = "finally"]
    /\ UNCHANGED << coreVars, extraVars, sd, photo_call, configVars, stopVars, se_is_speaking, se_engine, se_ret >>

\* SpeechEngine.speak: finally
se_finally(t) ==
    /\ se_pc[t] = "finally"
    /\ se_is_speaking' = FALSE
    /\ se_pc' = [se_pc EXCEPT ![t] = "idle"]
    /\ se_ret' = [se_ret EXCEPT ![t] = "returned"]
    /\ UNCHANGED << coreVars, extraVars, sd, photo_call, configVars, stopVars, se_engine >>

\* how engine.stop() or pygame.mixer.music.stop() can end
StopOutcomes == { "returned", "raised" }

\* a stop without its except clause
speech_stop_unguarded(engine, is_speaking_flag, outcome) ==
    IF engine # "gtts_unavailable" /\ outcome = "raised"
    THEN [ is_speaking |-> FALSE, raised |-> "backend error" ]
    ELSE [ is_speaking |-> FALSE, raised |-> NoError ]

\* SpeechEngine.stop: the backend's stop for the engine in use, its exception
\* caught; finally is_speaking = False
speech_stop(engine, is_speaking_flag, outcome) ==
    [ is_speaking |-> FALSE, raised |-> NoError ]

\* SpeechEngine.stop
se_stop ==
    /\ \E outcome \in StopOutcomes :
         /\ se_is_speaking' = speech_stop(se_engine, se_is_speaking, outcome).is_speaking
         /\ stop_call' =
                [ engine |-> "speech", before |-> se_is_speaking,
                  after |-> speech_stop(se_engine, se_is_speaking, outcome).is_speaking,
                  raised |-> speech_stop(se_engine, se_is_speaking, outcome).raised ]
    /\ UNCHANGED << coreVars, extraVars, sd, photo_call, configVars, se_engine, se_pc, se_ret,
                    re_is_listening, re_pc >>

\* ------------------------------------------------------- recognition engine
\* JarvisCore.shutdown not called: calls are the component stops it has called,
\* raised what it let escape, logged what its except clause logged
NoShutdown == [ pc |-> "idle", calls |-> <<>>, raised |-> NoError, logged |-> <<>> ]

\* initialize_components: the components in the order of their construction
Components ==
    << "ai_client", "speech_engine", "recognition_engine", "camera_manager",
       "system_controller" >>

\* initialize_components: OpenRouterClient() is called only with an API key
component_attempted(c, api_key) == c # "ai_client" \/ Truthy(api_key)

\* an initialize_components whose except only logs
initialize_components_swallowing(api_key, ok) ==
    [ raised |-> NoError,
      built |-> { c \in DOMAIN ok : component_attempted(c, api_key) /\ ok[c] } ]

\* JarvisCore.initialize_components: ok tells of each constructor whether it
\* returns; the first that raises ends the try, and the except raises its error
\* again (raised names the component whose error it is)
initialize_components(api_key, ok) ==
    LET failing == { i \in 1..Len(Components) :
                       component_attempted(Components[i], api_key) /\ ~ok[Components[i]] }
        first == CHOOSE i \in failing : \A j \in failing : i <= j
    IN  IF failing = {}
        THEN [ raised |-> NoError,
               built |-> { c \in DOMAIN ok : component_attempted(c, api_key) } ]
        ELSE [ raised |-> Components[first],
               built |-> { Components[i] : i \in { j \in 1..(first - 1) :
                             component_attempted(Components[j], api_key) } } ]

\* JarvisCore.__init__ from initialize_components on, start_background_threads
\* included: voice_activation is features.voice_activation
jarvis_init(api_key, ok, voice_activation) ==
    LET r == initialize_components(api_key, ok) IN
    [ pc |-> "done", ok |-> ok, raised |-> r.raised, built |-> r.built,
      command_thread |-> r.raised = NoError,
      voice_activation_thread |-> r.raised = NoError /\ voice_activation ]

\* JarvisCore() not called yet
NotConstructed ==
    [ pc |-> "new", ok |-> [ c \in {} |-> TRUE ], raised |-> NoError, built |-> {},
      command_thread |-> FALSE, voice_activation_thread |-> FALSE ]

ComponentSet == { Components[i] : i \in 1..Len(Components) }

\* JarvisCore() returned, with the default features.voice_activation
Constructed(api_key) ==
    jarvis_init(api_key, [ c \in ComponentSet |-> TRUE ], TRUE)

\* main: jarvis_core = JarvisCore()
construct ==
    /\ boot.pc = "new"
    /\ \E ok \in [ ComponentSet -> BOOLEAN ],
          voice_activation \in BOOLEAN :
         boot' = jarvis_init(world.api_key, ok, voice_activation)
    /\ UNCHANGED << coreVars, photo_call, speechVars, configVars, stopVars, sd,
                    status_call, recVars >>

\* an Optional[str] of the recognition engine: None, or the characters of a str
NoText == [ none |-> TRUE, text |-> <<>> ]

Text(cs) == [ none |-> FALSE, text |-> cs ]

\* no listen call observed yet
NoListen ==
    [ method |-> None, listen |-> None, online |-> None, offline |-> None,
      result |-> NoText, offline_tried |-> FALSE, raised |-> NoError ]

\* RecognitionEngine.__init__ before _initialize_microphone returns:
\* sr.Microphone() of the default device, not calibrated; calibrations counts
\* the calls of adjust_for_ambient_noise for the selected microphone, pc is the
\* position of a caller of set_microphone, raised what its last call raised
NewMicrophone ==
    [ device |-> "default", calibrated |-> FALSE, calibrations |-> 0,
      pc |-> "idle", raised |-> NoError ]

\* RecognitionEngine._calibrate_microphone; ok is whether the microphone opens
\* and adjust_for_ambient_noise returns
calibrate_microphone(m, ok) ==
    IF m.calibrated THEN [ mic |-> m, raised |-> NoError ]
    ELSE IF ok
    THEN [ mic |-> [ m EXCEPT !.calibrated = TRUE, !.calibrations = @ + 1 ],
           raised |-> NoError ]
    ELSE [ mic |-> m, raised |-> "calibration error" ]

\* the device indexes of set_microphone
Devices == { 0, 1, 2 }

\* RecognitionEngine.__init__, and no stop or shutdown called yet
InitRecognition ==
    /\ re_is_listening = FALSE
    /\ re_pc = "idle"
    /\ stop_call = [ engine |-> None, before |-> FALSE, after |-> FALSE,
                     raised |-> NoError ]
    /\ sd = NoShutdown
    /\ rec_call = NoListen
    /\ mic = calibrate_microphone(NewMicrophone, TRUE).mic

\* the engines as constructed, and JarvisCore() returned
InitStop ==
    /\ InitRecognition
    /\ boot = Constructed(world.api_key)

\* str.strip(): leading and trailing blanks removed
RECURSIVE strip(_)
strip(cs) ==
    IF cs = <<>> THEN cs
    ELSE IF Head(cs) = " " THEN strip(Tail(cs))
    ELSE IF cs[Len(cs)] = " " THEN strip(SubSeq(cs, 1, Len(cs) - 1))
    ELSE cs

\* what recognize_google and recognize_sphinx give: the characters of a
\* transcript, empty or blank ones too
Transcripts ==
    { <<>>, <<" ">>, <<"C","a","m">>, <<" ","D","e"," ","c"," ">> }

\* how a recognizer call ends: with a transcript or raising
RecognizerOutcomes ==
    { [ kind |-> "text", text |-> t ] : t \in Transcripts } \cup
    { [ kind |-> k, text |-> <<>> ] :
        k \in { "UnknownValueError", "RequestError", "Exception" } }

\* how recognizer.listen ends: with audio or raising
ListenOutcomes == { "audio", "WaitTimeoutError", "Exception" }

\* RecognitionEngine._offline_recognition
offline_recognition(offline) ==
    [ result |-> IF offline.kind = "text" /\ offline.text # <<>>
                 THEN Text(strip(Lower(offline.text)))
                 ELSE NoText,
      raised |-> NoError ]

\* a _recognize_speech that asks the offline recognizer after every failure
recognize_speech_always_offline(online, offline) ==
    IF online.kind = "text" /\ online.text # <<>>
    THEN [ result |-> Text(strip(Lower(online.text))), offline_tried |-> FALSE,
           raised |-> NoError ]
    ELSE [ result |-> offline_recognition(offline).result, offline_tried |-> TRUE,
           raised |-> offline_recognition(offline).raised ]

\* RecognitionEngine._recognize_speech: the online recognizer, the offline one
\* after its RequestError; an error of _offline_recognition would leave through
\* the handler of RequestError
recognize_speech(online, offline) ==
    IF online.kind = "text"
    THEN [ result |-> IF online.text # <<>> THEN Text(strip(Lower(online.text)))
                      ELSE NoText,
           offline_tried |-> FALSE, raised |-> NoError ]
    ELSE IF online.kind = "RequestError"
    THEN [ result |-> offline_recognition(offline).result, offline_tried |-> TRUE,
           raised |-> offline_recognition(offline).raised ]
    ELSE [ result |-> NoText, offline_tried |-> FALSE, raised |-> NoError ]

\* RecognitionEngine.listen_for_wake_word
recognition_listen_for_wake_word(microphone, listen, online, offline) ==
    IF ~microphone \/ listen # "audio"
    THEN [ result |-> NoText, offline_tried |-> FALSE, raised |-> NoError ]
    ELSE IF recognize_speech(online, offline).raised # NoError
    THEN [ result |-> NoText,
           offline_tried |-> recognize_speech(online, offline).offline_tried,
           raised |-> NoError ]
    ELSE recognize_speech(online, offline)

\* RecognitionEngine.listen_for_command: `if command: return command`
recognition_listen_for_command(microphone, listen, online, offline) ==
    LET r == recognition_listen_for_wake_word(microphone, listen, online, offline) IN
    IF r.result.none \/ r.result.text = <<>>
    THEN [ r EXCEPT !.result = NoText ]
    ELSE r

\* a call of listen_for_wake_word or listen_for_command, from its start to its
\* return; listen_for_command leaves is_listening false
re_listen ==
    /\ re_pc = "idle"
    /\ \E method \in { "listen_for_wake_word", "listen_for_command" },
          listen \in ListenOutcomes, online \in RecognizerOutcomes,
          offline \in RecognizerOutcomes :
         LET r == IF method = "listen_for_command"
                  THEN recognition_listen_for_command(TRUE, listen, online, offline)
                  ELSE recognition_listen_for_wake_word(TRUE, listen, online, offline)
         IN  /\ rec_call' = [ method |-> method, listen |-> listen, online |-> online,
                              offline |-> offline, result |-> r.result,
                              offline_tried |-> r.offline_tried, raised |-> r.raised ]
             /\ re_is_listening' = IF method = "listen_for_command" THEN FALSE
                                   ELSE re_is_listening
    /\ UNCHANGED << coreVars, sd, photo_call, speechVars, configVars, stop_call, re_pc,
                    status_call, boot, listen_call, mic >>

\* RecognitionEngine.set_microphone up to the call of _calibrate_microphone:
\* sr.Microphone(device_index) returns or raises, calibrated = False
re_set_microphone ==
    /\ mic.pc = "idle"
    /\ \E device_index \in Devices, ok \in BOOLEAN :
         mic' = IF ok
                THEN [ mic EXCEPT !.device = device_index, !.calibrated = FALSE,
                                  !.calibrations = 0, !.pc = "calibrate",
                                  !.raised = NoError ]
                ELSE [ mic EXCEPT !.raised = "microphone error" ]
    /\ UNCHANGED << coreVars, sd, photo_call, speechVars, configVars, stopVars,
                    status_call, boot, rec_call, listen_call >>

\* RecognitionEngine.set_microphone: _calibrate_microphone(), its error raised
\* again
re_calibrate ==
    /\ mic.pc = "calibrate"
    /\ \E ok \in BOOLEAN :
         mic' = [ calibrate_microphone(mic, ok).mic EXCEPT
                    !.pc = "idle", !.raised = calibrate_microphone(mic, ok).raised ]
    /\ UNCHANGED << coreVars, sd, photo_call, speechVars, configVars, stopVars,
                    status_call, boot, rec_call, listen_call >>

\* RecognitionEngine.stop
recognition_stop(is_listening_flag) == [ is_listening |-> FALSE, raised |-> NoError ]

\* RecognitionEngine.listen_for_command: is_listening = True, then the listen
re_listen_begin ==
    /\ re_pc = "idle"
    /\ re_is_listening' = TRUE
    /\ re_pc' = "listening"
    /\ UNCHANGED << coreVars, extraVars, sd, photo_call, speechVars, configVars, stop_call >>

\* RecognitionEngine.listen_for_command: the listen returns or raises; finally
re_listen_end ==
    /\ re_pc = "listening"
    /\ re_is_listening' = FALSE
    /\ re_pc' = "idle"
    /\ UNCHANGED << coreVars, extraVars, sd, photo_call, speechVars, configVars, stop_call >>

\* RecognitionEngine.stop
re_stop ==
    /\ re_is_listening' = recognition_stop(re_is_listening).is_listening
    /\ stop_call' = [ engine |-> "recognition", before |-> re_is_listening,
                      after |-> recognition_stop(re_is_listening).is_listening,
                      raised |-> recognition_stop(re_is_listening).raised ]
    /\ UNCHANGED << coreVars, extraVars, sd, photo_call, speechVars, configVars, re_pc >>

\* ------------------------------------------------------------ configuration
\* A configuration value is a tree: a function from the paths below it to what
\* stands there, DictMark for a dict and the Python literal for anything else.
\* A path is a sequence of keys, a key the characters of a str.
DictMark == "dict"

\* a value that is not a dict
Scalar(v) == [ p \in { <<>> } |-> v ]

\* {}
EmptyDict == Scalar(DictMark)

\* isinstance(value, dict)
IsDict(t) == t[<<>>] = DictMark

\* the keys of a dict
Keys(t) == { p[1] : p \in { q \in DOMAIN t : Len(q) = 1 } }

\* t[k]
Item(t, k) ==
    LET under == { p \in DOMAIN t : Len(p) >= 1 /\ p[1] = k }
    IN  [ q \in { Tail(p) : p \in under } |-> t[<<k>> \o q] ]

\* the dict with the items f
Dict(f) ==
    LET paths == { <<>> } \cup
                 UNION { { <<k>> \o q : q \in DOMAIN f[k] } : k \in DOMAIN f }
    IN  [ p \in paths |-> IF p = <<>> THEN DictMark ELSE f[Head(p)][Tail(p)] ]

\* t[k] = v
SetItem(t, k, v) ==
    Dict([ kk \in Keys(t) \cup { k } |-> IF kk = k THEN v ELSE Item(t, kk) ])

\* key.split('.')
RECURSIVE split(_)
split(cs) ==
    LET dots == { i \in 1..Len(cs) : cs[i] = "." }
    IN  IF dots = {}
        THEN << cs >>
        ELSE LET i == CHOOSE d \in dots : \A e \in dots : d <= e
             IN  << SubSeq(cs, 1, i - 1) >> \o split(SubSeq(cs, i + 1, Len(cs)))

\* Config.load_default_config, the voice section's engine and rate
DefaultConfig ==
    Dict([ k \in { Chars("voice") } |->
             Dict([ kk \in { Chars("engine"), Chars("rate") } |->
                      IF kk = Chars("engine") THEN Scalar("'pyttsx3'")
                                              ELSE Scalar("150") ]) ])

\* Python's None, the default of Config.get
PyNone == Scalar(None)

\* Config.get: the loop over the keys
RECURSIVE get_walk(_, _, _)
get_walk(value, keys, default) ==
    IF keys = <<>>
    THEN value
    ELSE IF IsDict(value) /\ Head(keys) \in Keys(value)
    THEN get_walk(Item(value, Head(keys)), Tail(keys), default)
    ELSE default

\* Config.get
get(cfg, key, default) == get_walk(cfg, split(Chars(key)), default)

\* Config.set: the loop over keys[:-1] and the final assignment; a step into a
\* value that is not a dict raises TypeError
RECURSIVE set_walk(_, _, _)
set_walk(node, keys, value) ==
    IF ~IsDict(node)
    THEN [ config |-> node, raised |-> "TypeError" ]
    ELSE IF Len(keys) = 1
    THEN [ config |-> SetItem(node, keys[1], value), raised |-> NoError ]
    ELSE LET k == Head(keys)
             created == IF k \in Keys(node) THEN node ELSE SetItem(node, k, EmptyDict)
             r == set_walk(Item(created, k), Tail(keys), value)
         IN  [ config |-> SetItem(created, k, r.config), raised |-> r.raised ]

\* Config.set
set(cfg, key, value) == set_walk(cfg, split(Chars(key)), value)

\* json.dump of a value that is not a dict
JsonOf(v) ==
    CASE v = "'pyttsx3'" -> "\"pyttsx3\""
      [] v = "(640, 480)" -> "[640, 480]"
      [] v = "[640, 480]" -> "[640, 480]"
      [] OTHER -> v

\* json.load of a value that is not an object
PyOf(j) ==
    CASE j = "\"pyttsx3\"" -> "'pyttsx3'"
      [] OTHER -> j

\* the tokens of a JSON text
JsonToken(tok, key, text) == [ tok |-> tok, key |-> key, text |-> text ]

\* the keys of a dict, in the order json.dump writes them
RECURSIVE key_list(_)
key_list(S) ==
    IF S = {}
    THEN <<>>
    ELSE LET k == CHOOSE x \in S : TRUE IN << k >> \o key_list(S \ { k })

\* json.dump
RECURSIVE json_dump(_)
RECURSIVE dump_items(_, _)
json_dump(t) ==
    IF IsDict(t)
    THEN << JsonToken("{", <<>>, "") >> \o dump_items(t, key_list(Keys(t)))
             \o << JsonToken("}", <<>>, "") >>
    ELSE << JsonToken("value", <<>>, JsonOf(t[<<>>])) >>

dump_items(t, ks) ==
    IF ks = <<>>
    THEN <<>>
    ELSE << JsonToken("key", Head(ks), "") >> \o json_dump(Item(t, Head(ks)))
             \o dump_items(t, Tail(ks))

\* json.load: the value that starts at token i, and the token after it
RECURSIVE parse_value(_, _)
RECURSIVE parse_items(_, _, _)
parse_value(toks, i) ==
    IF toks[i].tok = "{"
    THEN parse_items(toks, i + 1, EmptyDict)
    ELSE [ value |-> Scalar(PyOf(toks[i].text)), next |-> i + 1 ]

parse_items(toks, i, acc) ==
    IF toks[i].tok = "}"
    THEN [ value |-> acc, next |-> i + 1 ]
    ELSE LET v == parse_value(toks, i + 1)
         IN  parse_items(toks, v.next, SetItem(acc, toks[i].key, v.value))

\* json.load
json_load(toks) == parse_value(toks, 1).value

\* a merge_config that is default.update(user): the top-level keys only
deep_merge_shallow(default, user) ==
    Dict([ k \in Keys(default) \cup Keys(user) |->
             IF k \in Keys(user) THEN Item(user, k) ELSE Item(default, k) ])

\* Config.merge_config
RECURSIVE deep_merge(_, _)
deep_merge(default, user) ==
    Dict([ k \in Keys(default) \cup Keys(user) |->
             IF k \notin Keys(user)
             THEN Item(default, k)
             ELSE IF /\ k \in Keys(default)
                     /\ IsDict(Item(default, k))
                     /\ IsDict(Item(user, k))
             THEN deep_merge(Item(default, k), Item(user, k))
             ELSE Item(user, k) ])

\* config/user_config.json does not exist
NoFile == <<>>

\* Config.load_user_config
load_user_config(cfg, file) ==
    IF file = NoFile THEN cfg ELSE deep_merge(cfg, json_load(file))

\* the keys and values Config.set is called with
ConfigKeys == { "voice", "voice.rate", "voice.rate.fast", "home.lights.on" }

ConfigValues ==
    { Scalar("200"), Scalar("(640, 480)"),
      Dict([ k \in { Chars("rate") } |-> Scalar("200") ]) }

\* no call of Config.set yet
NoSet == [ key |-> None, value |-> PyNone, raised |-> NoError, stage |-> "none" ]

\* Config.__init__ without a user file
InitConfig ==
    /\ config = DefaultConfig
    /\ user_file = NoFile
    /\ last_set = NoSet

\* Config.set
cfg_set ==
    /\ \E key \in ConfigKeys, value \in ConfigValues :
         /\ config' = set(config, key, value).config
         /\ last_set' = [ key |-> key, value |-> value,
                          raised |-> set(config, key, value).raised,
                          stage |-> "set" ]
    /\ UNCHANGED << coreVars, extraVars, sd, photo_call, speechVars, stopVars, user_file >>

\* Config.save_user_config
cfg_save ==
    /\ user_file' = json_dump(config)
    /\ last_set' = [last_set EXCEPT !.stage = IF @ \in { "set", "saved" }
                                              THEN "saved" ELSE "none"]
    /\ UNCHANGED << coreVars, extraVars, sd, photo_call, speechVars, stopVars, config >>

\* Config.__init__ of a fresh process: the defaults, the user file merged over
cfg_load ==
    /\ config' = load_user_config(DefaultConfig, user_file)
    /\ last_set' = [last_set EXCEPT !.stage = IF @ \in { "saved", "reloaded" }
                                              THEN "reloaded" ELSE "none"]
    /\ UNCHANGED << coreVars, extraVars, sd, photo_call, speechVars, stopVars, user_file >>

\* ------------------------------------------------------------------ shutdown
\* JarvisCore.shutdown: camera_manager.stop_camera()
sd_camera ==
    /\ sd.pc = "idle"
    /\ \E join \in JoinOutcomes(cam) : cam' = stop_camera(cam, join)
    /\ sd' = [sd EXCEPT !.pc = "speech", !.calls = Append(@, "camera")]
    /\ UNCHANGED << coreButCam, extraVars, photo_call, speechVars, configVars, stopVars >>

\* JarvisCore.shutdown: speech_engine.stop()
sd_speech ==
    /\ sd.pc = "speech"
    /\ \E outcome \in StopOutcomes :
         LET r == speech_stop(se_engine, se_is_speaking, outcome)
         IN  /\ se_is_speaking' = r.is_speaking
             /\ stop_call' = [ engine |-> "speech", before |-> se_is_speaking,
                               after |-> r.is_speaking, raised |-> r.raised ]
             /\ sd' = IF r.raised = NoError
                      THEN [sd EXCEPT !.pc = "recognition",
                                      !.calls = Append(@, "speech")]
                      ELSE [sd EXCEPT !.pc = "done",
                                      !.calls = Append(@, "speech"),
                                      !.logged = Append(@, r.raised)]
    /\ UNCHANGED << coreVars, extraVars, photo_call, configVars, se_engine, se_pc, se_ret,
                    re_is_listening, re_pc >>

\* JarvisCore.shutdown: recognition_engine.stop(), and the return
sd_recognition ==
    /\ sd.pc = "recognition"
    /\ LET r == recognition_stop(re_is_listening)
       IN  /\ re_is_listening' = r.is_listening
           /\ stop_call' = [ engine |-> "recognition", before |-> re_is_listening,
                             after |-> r.is_listening, raised |-> r.raised ]
           /\ sd' = [sd EXCEPT !.pc = "done",
                               !.calls = Append(@, "recognition"),
                               !.logged = IF r.raised = NoError THEN @
                                          ELSE Append(@, r.raised)]
    /\ UNCHANGED << coreVars, extraVars, photo_call, speechVars, configVars, re_pc >>

\* ---------------------------------------------------------- specifications
\* the coordinator with all its threads
Init ==
    /\ InitCore(ConcTexts, MaxCommands, {DefaultLanguage}, {NewCamera}, ApiKeys)
    /\ InitSpeech({"pyttsx3"})
    /\ InitConfig
    /\ InitStop

Next ==
    \/ CommandProcessor
    \/ va_check \/ va_listen \/ va_sl_set
    \/ \E g \in GuiCallers : gui_start_listening(g) \/ gui_sl_set(g)
    \/ listen_for_command
    \/ send_message

Spec == Init /\ [][Next]_vars

\* one command of every kind through the processor, camera and settings changing
\* a camera started from the GUI before the commands
RunningCamera == start_camera(NewCamera, TRUE).cam

InitDispatch ==
    /\ InitCore(AllTexts, MaxDispatch, Languages \cup {UnlistedLanguage},
                {NewCamera, RunningCamera}, ApiKeys)
    /\ InitSpeech({"pyttsx3"})
    /\ InitConfig
    /\ InitStop

NextDispatch ==
    \/ CommandProcessor
    \/ send_message
    \/ capture_read \/ capture_store

SpecDispatch == InitDispatch /\ [][NextDispatch]_vars

\* many commands through the processor
InitHistory ==
    /\ InitCore(HistoryTexts, MaxHistoryCommands, {DefaultLanguage}, {NewCamera}, ApiKeys)
    /\ InitSpeech({"pyttsx3"})
    /\ InitConfig
    /\ InitStop

NextHistory ==
    \/ CommandProcessor
    \/ send_message

SpecHistory == InitHistory /\ [][NextHistory]_vars

\* the speech engine called from several threads and the recognition engine
\* listening, both stopped at any time
InitSpeechEngine ==
    /\ InitCore({}, 0, {DefaultLanguage}, {NewCamera}, {NoApiKey})
    /\ InitSpeech(Engines)
    /\ InitConfig
    /\ InitStop

NextSpeechEngine ==
    \/ \E t \in SpeakThreads : se_speak(t) \/ se_try(t) \/ se_backend(t) \/ se_finally(t)
    \/ se_stop
    \/ re_listen_begin
    \/ re_listen_end
    \/ re_stop

SpecSpeech == InitSpeechEngine /\ [][NextSpeechEngine]_vars

\* the camera manager driven from the GUI
InitCamera ==
    /\ InitCore({}, 0, {DefaultLanguage}, {NewCamera}, {NoApiKey})
    /\ InitSpeech({"pyttsx3"})
    /\ InitConfig
    /\ InitStop

NextCamera ==
    \/ toggle_camera
    \/ gui_take_photo
    \/ capture_read
    \/ capture_store

SpecCamera == InitCamera /\ [][NextCamera]_vars

\* the camera started, stopped and recorded from
NextRecording ==
    \/ toggle_camera
    \/ gui_take_photo
    \/ capture_read
    \/ capture_store
    \/ cm_start_recording
    \/ cm_stop_recording
    \/ recording_loop

SpecRecording == InitCamera /\ [][NextRecording]_vars

\* main constructs the coordinator; its threads run if it started them
InitStartup ==
    /\ InitCore(ConcTexts, MaxDispatch, {DefaultLanguage}, {NewCamera}, ApiKeys)
    /\ InitSpeech({"pyttsx3"})
    /\ InitConfig
    /\ InitRecognition
    /\ boot = NotConstructed

NextStartup ==
    \/ construct
    \/ boot.command_thread /\ CommandProcessor
    \/ boot.voice_activation_thread /\ (va_check \/ va_listen \/ va_sl_set)
    \/ boot.pc = "done" /\ boot.raised = NoError /\ listen_for_command
    \/ boot.pc = "done" /\ boot.raised = NoError /\ send_message

SpecStartup == InitStartup /\ [][NextStartup]_vars

\* the recognition engine listening for wake words and commands
InitRecognizing ==
    /\ InitCore({}, 0, {DefaultLanguage}, {NewCamera}, {NoApiKey})
    /\ InitSpeech({"pyttsx3"})
    /\ InitConfig
    /\ InitStop

NextRecognizing ==
    \/ re_listen
    \/ re_listen_begin
    \/ re_listen_end
    \/ re_stop

SpecRecognition == InitRecognizing /\ [][NextRecognizing]_vars

\* commands that switch the language and commands that do not, typed and heard
LanguageTexts ==
    { "idioma inglês", "language portuguese", "idioma espanhol",
      "aumentar volume", "tirar foto", "hello" }

InitLanguage ==
    /\ InitCore(LanguageTexts, MaxCommands, {DefaultLanguage}, {NewCamera},
                ApiKeys \ {NoApiKey})
    /\ InitSpeech({"pyttsx3"})
    /\ InitConfig
    /\ InitStop

NextLanguage ==
    \/ CommandProcessor
    \/ gui_start_listening("start_voice_input") \/ gui_sl_set("start_voice_input")
    \/ listen_for_command
    \/ send_message

SpecLanguage == InitLanguage /\ [][NextLanguage]_vars

\* a microphone selected while the recognition engine listens
NextMicrophone ==
    \/ re_set_microphone
    \/ re_calibrate
    \/ re_listen_begin
    \/ re_listen_end
    \/ re_stop

SpecMicrophone == InitRecognizing /\ [][NextMicrophone]_vars

\* commands processed with subscribers that may raise
EventTexts == { "hello", "aumentar volume", "tirar foto" }

InitEvents ==
    /\ InitCoreWith(EventTexts, MaxCommands, {DefaultLanguage},
                    {NewCamera, RunningCamera}, ApiKeys, SUBSET { "gui", "plugin" })
    /\ InitSpeech({"pyttsx3"})
    /\ InitConfig
    /\ InitStop

NextEvents ==
    \/ CommandProcessor
    \/ send_message

SpecEvents == InitEvents /\ [][NextEvents]_vars

\* the command-processor thread scheduled fairly: it is a thread of its own
\* that loops for as long as the process lives, and the AI call and the speech
\* synthesis return
FairTexts == { "hello", "tirar foto" }

InitFair ==
    /\ InitCore(FairTexts, MaxCommands, {DefaultLanguage},
                {NewCamera}, ApiKeys \ {NoApiKey})
    /\ InitSpeech({"pyttsx3"})
    /\ InitConfig
    /\ InitStop

NextFair ==
    \/ CommandProcessor
    \/ send_message

SpecFair == InitFair /\ [][NextFair]_vars /\ WF_vars(CommandProcessor)

\* the configuration set, saved and loaded again
InitConfiguration ==
    /\ InitCore({}, 0, {DefaultLanguage}, {NewCamera}, {NoApiKey})
    /\ InitSpeech({"pyttsx3"})
    /\ InitConfig
    /\ InitStop

NextConfiguration ==
    \/ cfg_set
    \/ cfg_save
    \/ cfg_load

SpecConfig == InitConfiguration /\ [][NextConfiguration]_vars

\* shutdown called while commands are queued or in hand, as the interactive test
\* does, the camera stopped or running
ShutdownTexts == { "hello", "ligar câmera", "tirar foto" }

InitShutdown ==
    /\ InitCore(ShutdownTexts, MaxDispatch, {DefaultLanguage},
                {NewCamera, RunningCamera}, ApiKeys)
    /\ InitSpeech({"pyttsx3"})
    /\ InitConfig
    /\ InitStop

NextShutdown ==
    \/ CommandProcessor
    \/ send_message
    \/ capture_read
    \/ capture_store
    \/ re_listen_begin
    \/ re_listen_end
    \/ sd_camera
    \/ sd_speech
    \/ sd_recognition

SpecShutdown == InitShutdown /\ [][NextShutdown]_vars

\* the status read from the GUI while commands are processed
InitStatus ==
    /\ InitCore(ShutdownTexts, MaxDispatch, {DefaultLanguage},
                {NewCamera, RunningCamera}, ApiKeys)
    /\ InitSpeech({"pyttsx3"})
    /\ InitConfig
    /\ InitStop

NextStatus ==
    \/ CommandProcessor
    \/ send_message
    \/ toggle_camera
    \/ update_status

SpecStatus == InitStatus /\ [][NextStatus]_vars

\* ------------------------------------------------------------------ claims
\* the arrival numbers 1..n in order
Arrivals(n) == [ i \in 1..n |-> i ]

\* the arrival numbers of the commands waiting on the queue
QueuedSeqs == [ i \in 1..Len(command_queue) |-> command_queue[i].seq ]

\* how often arrival number n occurs in a sequence of them
Occurrences(seq, n) == Cardinality({ i \in 1..Len(seq) : seq[i] = n })

\* _process_command has returned for the command in cur
Returned == cp_pc = "wait" /\ cur.command_data # NoCommand

\* C1: at most one of is_listening, is_processing, is_speaking is true in every
\* reachable state of the coordinator.
C1_AtMostOneFlag ==
    /\ ~(is_listening /\ is_processing)
    /\ ~(is_listening /\ is_speaking)
    /\ ~(is_processing /\ is_speaking)

\* C2: commands are processed in queue-arrival order and one at a time: the
\* commands whose processing began are the first arrivals, in arrival order, each
\* began only after the one before it had finished, and at most one execution of
\* _process_command is in progress.
C2_ArrivalOrderOneAtATime ==
    /\ started = Arrivals(Len(started))
    /\ finished = SubSeq(started, 1, Len(finished))
    /\ Len(started) - Len(finished) \in {0, 1}
    /\ (Len(started) - Len(finished) = 1) <=> (cp_pc # "wait")

\* C2 witness: two commands were waiting together and both have been processed
C2_Witness == Len(finished) >= 2 /\ cp_pc = "wait"

\* C3: every command put on the queue is passed to _process_command exactly
\* once: it is on the queue or was taken once, never both and never twice, and
\* when _process_command has returned every command taken has been finished once.
C3_ExactlyOnce ==
    /\ \A n \in 1..puts :
         Occurrences(started, n) + Occurrences(QueuedSeqs, n) = 1
    /\ \A n \in 1..puts : Occurrences(finished, n) <= Occurrences(started, n)
    /\ cp_pc = "wait" =>
         \A n \in 1..puts : Occurrences(finished, n) = Occurrences(started, n)
    /\ \A i \in 1..Len(started) : started[i] \in 1..puts

\* C3 witness: commands from the queue were each processed, none is left
C3_Witness ==
    /\ puts >= 2 /\ command_queue = <<>> /\ cp_pc = "wait"
    /\ \A n \in 1..puts : Occurrences(finished, n) = 1

\* the positions of _process_command after the assistant turn was appended
AfterRecord == { "speak", "speaking", "callbacks" }

\* the positions of _process_command after speech_engine.speak was called
AfterSpeak == { "speaking", "callbacks" }

\* C4: when _handle_system_commands returns a response, chat_completion is not
\* called, and the turn recorded in the history and the text spoken are exactly
\* the handler's string.
C4_SystemCommandShortCircuits ==
    Truthy(cur.system_response) =>
        /\ cur.ai_calls = 0 /\ cur.messages = <<>> /\ cur.ai_outcome = None
        /\ (cp_pc \in AfterRecord \/ Returned) =>
               /\ Len(conversation_history) = cur.base + 2
               /\ conversation_history[cur.base + 2] =
                      Turn("assistant", cur.system_response, cur.language)
        /\ (cp_pc \in AfterSpeak \/ Returned) =>
               cur.spoken = << [ text |-> cur.system_response,
                                 language |-> cur.language ] >>

\* C4 witness: a camera command was answered by the handler and spoken
C4_Witness ==
    /\ Returned
    /\ cur.system_response = "Câmera ativada com sucesso."
    /\ cur.spoken # <<>>

\* C5: when the AI call fails with a transport error for a command of language
\* L, the response spoken and reported by on_response is the fallback string of
\* L, and the command added exactly one assistant turn to the history.
C5_FallbackOnTransportError ==
    (Returned /\ cur.ai_outcome = "transport_error") =>
        LET L == cur.command_data.language
            fallback == get_fallback_response(L)
        IN  /\ cur.spoken = << [ text |-> fallback, language |-> L ] >>
            /\ cur.on_response = << [ text |-> fallback, language |-> L ] >>
            /\ Len(conversation_history) = cur.base + 2
            /\ conversation_history[cur.base + 1].role = "user"
            /\ conversation_history[cur.base + 2] = Turn("assistant", fallback, L)

\* C5 witness: a command in French met a transport error and was answered
C5_Witness ==
    /\ Returned
    /\ cur.ai_outcome = "transport_error"
    /\ cur.command_data.language = "fr-FR"

\* C6: the messages passed to chat_completion are at most the system prompt and
\* the last 6 conversation turns: at most 7 messages, every one after the first
\* a turn among the 6 most recent of the history.
C6_ContextWithinWindow ==
    cur.ai_calls > 0 =>
        /\ Len(cur.messages) <= HistoryWindow + 1
        /\ cur.messages[1] = system_prompt(cur.language)
        /\ cp_pc = "ai" =>
               \A i \in 2..Len(cur.messages) :
                   \E j \in 1..Len(conversation_history) :
                       /\ j > Len(conversation_history) - HistoryWindow
                       /\ conversation_history[j].role = cur.messages[i].role
                       /\ conversation_history[j].content = cur.messages[i].content

\* C7: a speak call made while an earlier one is still synthesizing or playing
\* returns without entering the backend, so at no time are two threads inside
\* the synthesis backend
C7_OneBackendCall == Cardinality(InBackend) <= 1

\* C8: take_photo called while the camera is not active raises 'Camera is not
\* active' before a frame is read or a file written, and leaves the camera as it
\* was
C8_InactivePhotoFails ==
    (photo_call.raised # None /\ ~photo_call.before.is_active)
        => /\ photo_call.raised = "Camera is not active"
           /\ ~photo_call.frame_read
           /\ photo_call.after = photo_call.before

\* take_photo was called on a stopped camera that still holds a frame
C8_Witness ==
    /\ photo_call.raised = "Camera is not active"
    /\ ~photo_call.before.is_active
    /\ photo_call.before.current_frame

\* C9: after set(key, value), get(key) returns value whatever the configuration
\* held before, and so does get(key) after save_user_config and a fresh load
C9_SetThenGet ==
    last_set.stage \in { "set", "reloaded" }
        => /\ last_set.raised = NoError
           /\ get(config, last_set.key, PyNone) = last_set.value

\* C10: when a step of _process_command raised, the exception did not escape:
\* the error utterance was spoken, on_error was fired exactly once with the error
\* text, neither on_command nor on_response was fired, is_processing is false
\* again, and the command processor is back at the queue, where a waiting command
\* can be taken.
C10_ExceptionContained ==
    /\ (Returned /\ cur.raised # NoError) =>
           /\ Len(cur.spoken) = 1 /\ cur.spoken[1].text = ErrorMsg
           /\ cur.on_error = << cur.raised >>
           /\ ~is_processing
           /\ finished = started
           /\ (command_queue # <<>> => ENABLED cp_get)
    /\ cp_pc = "wait" => ~is_processing

\* C10 witness: take_photo raised for the first command, and the command queued
\* behind it has been processed too
C10_Witness ==
    /\ Returned
    /\ Len(finished) >= 2
    /\ conversation_history[1] = Turn("user", "tirar foto", DefaultLanguage)
    /\ conversation_history[2].role = "user"
    /\ cur.raised # NoError

\* C11: start_listening called while is_speaking or is_listening is true changes
\* nothing, and is_listening never becomes true while is_speaking is true, under
\* any interleaving with the command processor's speak
C11_NoListeningWhileSpeaking ==
    [][(~is_listening /\ is_listening') => ~is_speaking]_vars

\* C12: the wake-word thread starts a listen_for_wake_word attempt only when
\* neither is_speaking nor is_processing is true, and it fires on_wake_word and
\* calls start_listening only in such a state
C12_WakeSuspended ==
    [][/\ (va_pc = "check" /\ va_pc' = "listen") => ~(is_speaking \/ is_processing)
       /\ (va_pc = "listen" /\ va_pc' = "sl_set") => ~(is_speaking \/ is_processing)]_vars

\* a handler has run for the command in cur
HandlerRan ==
    \/ cur.actions # <<>>
    \/ cur.ai_calls > 0
    \/ cur.system_response # None
    \/ cur.response # None
    \/ cur.raised # NoError

\* the turns of the command in cur
UserTurn == Turn("user", cur.command_data.text, cur.language)

AssistantTurn == Turn("assistant", cur.response, cur.language)

\* what the command in cur has added to the history
TurnsAdded ==
    SubSeq(conversation_history, cur.base + 1, Len(conversation_history))

\* C13: the user turn is in the history before any handler runs; for a command
\* processed without error the assistant turn holding the response is in the
\* history before the response is spoken, and the command adds exactly the user
\* turn and then the assistant turn
C13_TurnsBeforeSpeech ==
    /\ HandlerRan => (TurnsAdded # <<>> /\ TurnsAdded[1] = UserTurn)
    /\ (cur.spoken # <<>> /\ cur.raised = NoError) =>
           /\ cur.spoken[1].text = cur.response
           /\ TurnsAdded = << UserTurn, AssistantTurn >>
    /\ (Returned /\ cur.raised = NoError) =>
           TurnsAdded = << UserTurn, AssistantTurn >>

\* C13 witness: the second command was answered and spoken without error
C13_Witness ==
    /\ Returned
    /\ cur.raised = NoError
    /\ cur.base >= 2
    /\ cur.spoken # <<>>
    /\ TurnsAdded = << UserTurn, AssistantTurn >>

\* C14: conversation_history is append-only: no step of the coordinator removes,
\* reorders or modifies a turn already in it, so its length never decreases and
\* every prefix is preserved
C14_AppendOnly ==
    [][/\ Len(conversation_history') >= Len(conversation_history)
       /\ SubSeq(conversation_history', 1, Len(conversation_history))
              = conversation_history]_vars

\* C14 witness: the AI context was built from a history longer than the window,
\* and the whole history is still there
C14_Witness ==
    /\ Len(conversation_history) > HistoryWindow
    /\ cur.ai_calls > 0
    /\ Len(cur.messages) > HistoryWindow
    /\ cp_pc = "speak"

\* _handle_system_commands has returned or raised for the command in cur
Dispatched == cur.command_data # NoCommand /\ cp_pc \notin { "begin", "dispatch" }

\* the groups of _handle_system_commands in the order they are tried, each with
\* the action its phrases select in the command in cur, None if none
GroupSelections == cur.selections

\* the groups whose phrases select an action
MatchingGroups == { g \in 1..3 : GroupSelections[g] # None }

\* the action of the earliest matching group, None if no group matches
EarliestSelection ==
    IF MatchingGroups = {}
    THEN None
    ELSE GroupSelections[CHOOSE g \in MatchingGroups :
                             \A h \in MatchingGroups : g <= h]

\* the responses of the system actions
SystemResponses ==
    [ start_camera |-> "Câmera ativada com sucesso.",
      stop_camera |-> "Câmera desativada.",
      take_photo |-> "Foto capturada e salva como output/photos/jarvis_photo.jpg.",
      increase_volume |-> "Volume aumentado.",
      decrease_volume |-> "Volume diminuído.",
      mute_volume |-> "Som silenciado." ]

LanguageResponses ==
    [ l \in { "en-US", "pt-BR", "es-ES" } |->
        CASE l = "en-US" -> "Language changed to English."
          [] l = "pt-BR" -> "Idioma alterado para português."
          [] l = "es-ES" -> "Idioma cambiado a español." ]

\* C15: the groups are tried in the order camera, volume, language and the first
\* whose phrases select an action wins: exactly that action is executed and its
\* response returned; a group whose keyword is there without an action phrase is
\* passed over, and the AI path is taken only if no group selects an action
C15_FirstMatchWins ==
    Dispatched =>
        LET sel == EarliestSelection IN
        /\ sel \in DOMAIN SystemResponses =>
               /\ cur.actions = << sel >>
               /\ current_language = cur.language_was
               /\ cur.raised = NoError => cur.system_response = SystemResponses[sel]
               /\ cur.ai_calls = 0
        /\ sel \in DOMAIN LanguageResponses =>
               /\ cur.actions = <<>>
               /\ current_language = sel
               /\ cur.raised = NoError
               /\ cur.system_response = LanguageResponses[sel]
               /\ cur.ai_calls = 0
        /\ sel = None =>
               /\ cur.actions = <<>>
               /\ current_language = cur.language_was
               /\ cur.system_response = None
               /\ cur.ai_calls = IF ai_client THEN 1 ELSE 0

\* C15 witness: a text with a camera phrase and a language phrase took the photo
\* and left the language alone, and one with a camera keyword only went on to
\* the volume group
C15_Witness ==
    /\ Dispatched
    /\ \/ /\ cur.command_data.text = "picture language english"
          /\ cur.actions = << "take_photo" >>
          /\ cur.raised = NoError
          /\ current_language = "pt-BR"
       \/ /\ cur.command_data.text = "volume up language english"
          /\ cur.actions = << "increase_volume" >>
          /\ current_language = "pt-BR"
    /\ Cardinality(MatchingGroups) = 2

\* the call of JarvisCore.speak for the command in cur has returned
SpeakReturned == cp_pc \in { "callbacks", "err_finally" } \/ Returned

\* the on_status_change events fired from the call of JarvisCore.speak on
EventsOfSpeak ==
    LET first == CHOOSE i \in 1..(Len(cur.status) + 1) :
                     /\ i <= Len(cur.status) => cur.status[i] = "speaking"
                     /\ \A j \in 1..(i - 1) : cur.status[j] # "speaking"
    IN  SubSeq(cur.status, first, Len(cur.status))

\* C16: after JarvisCore.speak returns, whether speech_engine.speak completed or
\* raised, is_speaking is false and 'idle' was fired after 'speaking'; speak
\* called with an empty text changes no flag and fires no event
C16_SpeakingEndsIdle ==
    /\ SpeakReturned => ~is_speaking
    /\ (SpeakReturned /\ cur.spoken # <<>>) =>
           /\ Len(cur.speech) = 1
           /\ Len(EventsOfSpeak) >= 2
           /\ EventsOfSpeak[1] = "speaking" /\ EventsOfSpeak[2] = "idle"
    /\ (SpeakReturned /\ cur.spoken = <<>>) =>
           /\ cur.speech = <<>>
           /\ EventsOfSpeak = <<>>
           /\ cp_pc = "callbacks" => cur.status = << "processing" >>

\* C16 witness: speech_engine.speak raised and JarvisCore.speak has returned
C16_Witness ==
    /\ cp_pc = "callbacks"
    /\ cur.speech = << "raised" >>
    /\ cur.status = << "processing", "speaking", "idle" >>
    /\ ~is_speaking

\* C17: SpeechEngine.stop and RecognitionEngine.stop raise in no state, idle,
\* mid-speech, mid-listen or just stopped, and are idempotent: a second stop
\* leaves the state the first one left
C17_StopSafeAndIdempotent ==
    /\ stop_call.raised = NoError
    /\ \A o1 \in StopOutcomes, o2 \in StopOutcomes :
         LET once == speech_stop(se_engine, se_is_speaking, o1)
             twice == speech_stop(se_engine, once.is_speaking, o2)
         IN  /\ once.raised = NoError
             /\ twice.raised = NoError
             /\ twice.is_speaking = once.is_speaking
    /\ LET once == recognition_stop(re_is_listening)
           twice == recognition_stop(once.is_listening)
       IN  /\ once.raised = NoError
           /\ twice.raised = NoError
           /\ twice.is_listening = once.is_listening

\* C17 witness: stop was called mid-speech, a thread being inside the backend,
\* and the recognition engine is mid-listen
C17_Witness ==
    /\ stop_call.engine = "speech"
    /\ stop_call.before /\ ~stop_call.after
    /\ InBackend # {}
    /\ re_pc = "listening"

\* C18: shutdown never raises; it calls the camera's stop, then the speech
\* engine's, then the recognition engine's, a failure being logged and not
\* propagated; after shutdown the camera is inactive
C18_ShutdownStopsAll ==
    sd.pc = "done" =>
        /\ sd.raised = NoError
        /\ sd.calls = << "camera", "speech", "recognition" >>
        /\ ~cam.is_active

\* the outcomes of the request for which chat_completion has no completion text
FailureOutcomes ==
    { "transport_error", "http_error", "undecodable", "no_choices", "bad_shape" }

\* C19: chat_completion never raises: for a transport error, an HTTP error
\* status, an undecodable body, a body without choices or of an unexpected shape
\* it returns the fallback string of the requested language, and the en-US one
\* for a language without an entry
C19_FallbackNeverRaises ==
    cur.ai_outcome # None =>
        /\ cur.ai_raised = NoError
        /\ cur.ai_outcome \in FailureOutcomes =>
               /\ cur.response # AIErrorResponse
               /\ cur.response =
                      get_fallback_response(IF cur.language \in Languages
                                            THEN cur.language ELSE "en-US")

\* C19 witness: a body of an unexpected shape for a language without an entry
C19_Witness ==
    /\ cur.ai_outcome = "bad_shape"
    /\ cur.language = UnlistedLanguage
    /\ cur.response = get_fallback_response("en-US")
    /\ cp_pc = "speaking"

\* the response expected of the system action sel
ExpectedSystemResponse(sel) ==
    IF sel \in DOMAIN SystemResponses THEN SystemResponses[sel]
    ELSE LanguageResponses[sel]

\* C20: without an API key the coordinator starts with ai_client absent and
\* keeps working: a command that is no system command gets the fixed response
\* 'AI not configured', recorded as one assistant turn and spoken, without an AI
\* call; a system command is answered by its handler as with a client
C20_WorksWithoutAI ==
    ~Truthy(world.api_key) =>
        /\ ~ai_client
        /\ cur.ai_calls = 0 /\ cur.ai_outcome = None /\ cur.messages = <<>>
        /\ (Dispatched /\ EarliestSelection = None) =>
               /\ cur.raised = NoError
               /\ cur.response = NoAIResponse
        /\ (Returned /\ EarliestSelection = None) =>
               /\ TurnsAdded = << UserTurn,
                                  Turn("assistant", NoAIResponse, cur.language) >>
               /\ cur.spoken = << [ text |-> NoAIResponse,
                                    language |-> cur.language ] >>
               /\ cur.on_response = << [ text |-> NoAIResponse,
                                         language |-> cur.language ] >>
        /\ (Dispatched /\ EarliestSelection # None /\ cur.raised = NoError) =>
               /\ cur.system_response = ExpectedSystemResponse(EarliestSelection)
               /\ cur.response = cur.system_response
        /\ (Returned /\ EarliestSelection # None /\ cur.raised = NoError) =>
               /\ TurnsAdded = << UserTurn, AssistantTurn >>
               /\ cur.spoken = << [ text |-> cur.system_response,
                                    language |-> cur.language ] >>

\* C20 witness: without an API key, 'hello' was answered with the fixed response
C20_Witness ==
    /\ world.api_key = NoApiKey
    /\ Returned
    /\ cur.command_data.text = "hello"
    /\ cur.response = NoAIResponse
    /\ Len(conversation_history) = 2
    /\ cur.spoken # <<>>

\* C21: get_status returns without raising a snapshot of the flags, of whether
\* an AI client exists and of the camera manager's active flag
C21_StatusSnapshot ==
    [][status_call' # status_call =>
        /\ status_call'.raised = NoError
        /\ status_call'.value.is_listening = is_listening
        /\ status_call'.value.is_speaking = is_speaking
        /\ status_call'.value.is_processing = is_processing
        /\ status_call'.value.ai_available = ai_client
        /\ status_call'.value.camera_active = cam.is_active
        /\ UNCHANGED << coreVars, photo_call, speechVars, configVars, stopVars, sd, boot,
                    recVars >>]_vars

\* the components whose constructor was called and raised, or would have
FailingComponents ==
    { c \in ComponentSet : component_attempted(c, world.api_key) /\ ~boot.ok[c] }

ReturnedTranscript(method, outcome) ==
    IF outcome.kind # "text" \/ outcome.text = <<>> THEN NoText
    ELSE IF method = "listen_for_command" /\ strip(Lower(outcome.text)) = <<>>
    THEN NoText
    ELSE Text(strip(Lower(outcome.text)))

\* C23: a listen call never raises; it returns None when the listen timed out or
\* failed; with audio it returns the lower-cased online transcript, after a
\* request error of the online recognizer what the offline recognizer gives or
\* None, and None without asking the offline recognizer when the online one
\* understood no speech
C23_RecognitionOutcome ==
    rec_call.method # None =>
        /\ rec_call.raised = NoError
        /\ rec_call.listen # "audio" =>
               rec_call.result = NoText /\ ~rec_call.offline_tried
        /\ (rec_call.listen = "audio" /\ rec_call.online.kind = "text") =>
               /\ rec_call.result = ReturnedTranscript(rec_call.method, rec_call.online)
               /\ \A i \in 1..Len(rec_call.result.text) :
                      rec_call.result.text[i] \notin { "C", "D" }
               /\ ~rec_call.offline_tried
        /\ (rec_call.listen = "audio" /\ rec_call.online.kind = "RequestError") =>
               /\ rec_call.offline_tried
               /\ rec_call.result = ReturnedTranscript(rec_call.method, rec_call.offline)
        /\ (rec_call.listen = "audio" /\ rec_call.online.kind = "UnknownValueError") =>
               rec_call.result = NoText /\ ~rec_call.offline_tried
        /\ (rec_call.listen = "audio" /\ rec_call.online.kind = "Exception") =>
               rec_call.result = NoText

\* C23 witness: listen_for_command returned the offline transcript after a
\* request error of the online recognizer
C23_Witness ==
    /\ rec_call.method = "listen_for_command"
    /\ rec_call.listen = "audio"
    /\ rec_call.online.kind = "RequestError"
    /\ rec_call.offline = [ kind |-> "text", text |-> <<"C","a","m">> ]
    /\ rec_call.result = Text(<<"c","a","m">>)

\* C24: start_camera and stop_camera toggle a single capture loop: whatever the
\* sequence of calls, at most one capture-loop thread is running
C24_OneCaptureLoop == cam.loops + cam.holding <= 1

\* the command texts with a camera keyword and a turn-off phrase
TurnOffTexts ==
    { t \in AllTexts :
        LET cl == Lower(Chars(t)) IN
        /\ Has(cl, "câmera") \/ Has(cl, "camera") \/ Has(cl, "foto") \/ Has(cl, "picture")
        /\ Has(cl, "desligar") \/ Has(cl, "desativar") \/ Has(cl, "turn off") }

\* the command texts with a camera keyword, a turn-on phrase and no turn-off
\* phrase
TurnOnTexts ==
    { t \in AllTexts \ TurnOffTexts :
        LET cl == Lower(Chars(t)) IN
        /\ Has(cl, "câmera") \/ Has(cl, "camera") \/ Has(cl, "foto") \/ Has(cl, "picture")
        /\ Has(cl, "ligar") \/ Has(cl, "ativar") \/ Has(cl, "turn on") }

\* C25: a command with a camera keyword and a turn-off phrase stops the camera
\* and is answered 'Câmera desativada.', it does not start the camera; one
\* with a turn-on phrase and no turn-off phrase starts the camera
C25_TurnOffStopsCamera ==
    (Dispatched /\ cur.raised = NoError) =>
        /\ cur.command_data.text \in TurnOffTexts =>
               /\ cur.actions = << "stop_camera" >>
               /\ cur.system_response = "Câmera desativada."
        /\ cur.command_data.text \in TurnOnTexts =>
               /\ cur.actions = << "start_camera" >>
               /\ cur.system_response = "Câmera ativada com sucesso."

\* C26: when a _listen_for_command ends, whether the listen returned text,
\* returned nothing or raised, is_listening is false and 'idle' was fired, and
\* a command was put on command_queue exactly when the listen returned a
\* non-empty transcript: that transcript, with the current language
C26_ListeningEndsIdle ==
    [][listeners' < listeners =>
        /\ ~is_listening'
        /\ listen_call'.status = << "idle" >>
        /\ listen_call'.put =
               (~listen_call'.result.raised /\ listen_call'.result.text \notin { None, "" })
        /\ IF listen_call'.put
           THEN /\ Len(command_queue') = Len(command_queue) + 1
                /\ command_queue'[Len(command_queue')].text = listen_call'.result.text
                /\ command_queue'[Len(command_queue')].language = current_language
           ELSE command_queue' = command_queue]_vars

\* C26 witness: a _listen_for_command whose listen raised has ended, nothing was
\* put and the coordinator is idle
C26_Witness ==
    /\ listen_call.result.raised
    /\ listen_call.status = << "idle" >>
    /\ ~listen_call.put
    /\ ~is_listening /\ listeners = 0 /\ puts = 0

\* the language-switch commands of LanguageTexts and the language each names
SwitchesTo(text) ==
    CASE text = "idioma inglês" -> "en-US"
      [] text = "language portuguese" -> "pt-BR"
      [] text = "idioma espanhol" -> "es-ES"
      [] OTHER -> None

C28_CalibratedWhenListening ==
    [][(re_pc = "idle" /\ re_pc' = "listening") =>
           mic.calibrated /\ mic.calibrations = 1]_vars

\* C29: when the command-processor thread fires on_status_change, the flags
\* agree with the event: all three are false at 'idle', and at 'processing' and
\* 'speaking' the flag of that name is the only one set
C29_StatusMatchesFlags ==
    [][(cur'.status # cur.status /\ cur'.status # <<>>) =>
        LET event == cur'.status[Len(cur'.status)] IN
        /\ event = "idle" => ~is_listening' /\ ~is_processing' /\ ~is_speaking'
        /\ event = "processing" => ~is_listening' /\ is_processing' /\ ~is_speaking'
        /\ event = "speaking" => ~is_listening' /\ ~is_processing' /\ is_speaking']_vars

\* C30: at most one _listen_for_command thread is running at any time,
\* whichever callers of start_listening interleave
C30_OneListener == listeners <= 1

\* C31: the microphone serves one listen call at a time: the wake-word thread
\* starts no listen_for_wake_word while is_listening is true, and none is in
\* progress while a _listen_for_command thread listens
C31_OneListenAtATime ==
    [][/\ (va_pc = "check" /\ va_pc' = "listen") => ~is_listening
       /\ va_pc' = "listen" => listeners' = 0]_vars

\* the threads between the locked block of SpeechEngine.speak and its finally
SpeakInFlight == { t \in SpeakThreads : se_pc[t] # "idle" }

\* C32: SpeechEngine.is_speaking is true exactly while a speak call is in
\* flight, whatever speak and stop calls interleave: it is set while a backend
\* call is in progress, it is clear when none is in flight, and no second speak
\* gets past the flag before the one in flight has returned
C32_SpeakingExactlyInFlight ==
    /\ InBackend # {} => se_is_speaking
    /\ se_is_speaking => SpeakInFlight # {}
    /\ Cardinality(SpeakInFlight) <= 1

\* C33: while no command is being processed, conversation_history is made of
\* complete exchanges: a user turn at every odd place, at the next place the
\* assistant turn that answers it
C33_CompleteExchanges ==
    cp_pc = "wait" =>
        /\ Len(conversation_history) % 2 = 0
        /\ \A i \in 1..Len(conversation_history) :
               conversation_history[i].role =
                   IF i % 2 = 1 THEN "user" ELSE "assistant"

\* the events of a kind delivered for the command in cur
Delivered(event) ==
    { i \in 1..Len(cur.delivered) : cur.delivered[i].event = event }

\* C34: once _process_command has returned, a command processed without error
\* had on_command and then on_response fired once each, after the speaking
\* ended, and no on_error; a command whose processing raised had on_error fired
\* once and neither of the others; every firing called every subscriber, raising
\* ones included, and raised nothing
C34_EventDelivery ==
    /\ Returned =>
        /\ \A i \in 1..Len(cur.delivered) :
               /\ cur.delivered[i].called = Subscribers
               /\ cur.delivered[i].raised = NoError
        /\ IF cur.raised = NoError
           THEN /\ Len(cur.delivered) = 2
                /\ cur.delivered[1].event = "on_command"
                /\ cur.delivered[2].event = "on_response"
                /\ cur.on_command = 1 /\ Len(cur.on_response) = 1
                /\ cur.on_error = <<>>
           ELSE /\ Len(cur.delivered) = 1
                /\ cur.delivered[1].event = "on_error"
                /\ cur.on_error = << cur.raised >>
                /\ cur.on_command = 0 /\ cur.on_response = <<>>
    /\ (cur.delivered # <<>> /\ cur.raised = NoError) =>
           /\ ~is_speaking
           /\ cur.status \in { << "processing", "idle" >>,
                               << "processing", "speaking", "idle", "idle" >> }

\* C34 witness: 'hello' was processed without error while the GUI's handlers
\* raise, and the second subscriber was still called for both events
C34_Witness ==
    /\ Returned
    /\ cur.command_data.text = "hello"
    /\ cur.raised = NoError
    /\ "gui" \in world.raising
    /\ Len(cur.delivered) = 2
    /\ cur.delivered[2].called = << "gui", "plugin" >>

\* the commands waiting on command_queue
Queued == { command_queue[i].seq : i \in 1..Len(command_queue) }

\* the last on_status_change fired for the command in cur
LastStatus == IF cur.status = <<>> THEN None ELSE cur.status[Len(cur.status)]

\* C35: with the command-processor thread scheduled fairly, every processing
\* ends with is_processing false, every on_status_change('processing') is
\* followed by on_status_change('idle'), and every command on the queue is
\* processed
C35_ProcessingEnds ==
    /\ [](LastStatus = "processing" => is_processing)
    /\ is_processing ~> (~is_processing /\ LastStatus = "idle" /\ cp_pc = "wait")
    /\ \A seq \in 1..MaxCommands :
           (seq \in Queued) ~> (\E i \in 1..Len(finished) : finished[i] = seq)

\* C35 witness: two commands were queued and both were processed, one of them
\* through the except branch, and the processor is idle again
C35_Witness ==
    /\ Len(finished) = 2
    /\ cp_pc = "wait"
    /\ ~is_processing
    /\ command_queue = <<>>
    /\ cur.raised # NoError
    /\ LastStatus = "idle"

\* C36: after stop_camera has returned and until the next start_camera starts
\* the camera, get_current_frame returns no frame, also when the capture
\* thread was still alive at the end of the join timeout
C36_NoFrameWhenStopped == ~cam.is_active => ~cam.current_frame

\* C37: in every reachable state of the camera manager is_recording implies
\* is_active, and at most one recording-loop thread is running
C37_RecordingInvariant ==
    /\ cam.is_recording => cam.is_active
    /\ cam.rec_loops <= 1

\* the user configuration gives a value that is not a dict at a key above path p
UnderUserValue(u, p) ==
    \E n \in 1..(Len(p) - 1) :
        /\ SubSeq(p, 1, n) \in DOMAIN u
        /\ u[SubSeq(p, 1, n)] # DictMark

\* the user's leaves hold the user's values in m, the keys unknown to the
\* defaults d are kept, and merging u again changes nothing
UserWins(d, u, m) ==
    /\ \A p \in DOMAIN u : u[p] # DictMark => (p \in DOMAIN m /\ m[p] = u[p])
    /\ \A p \in DOMAIN u : p \notin DOMAIN d => (p \in DOMAIN m /\ m[p] = u[p])
    /\ deep_merge(m, u) = m

\* a step of Config.__init__ that merged the user file over the defaults
MergeStep ==
    /\ user_file # NoFile
    /\ user_file' = user_file
    /\ last_set'.stage = "reloaded"
    /\ config' = load_user_config(DefaultConfig, user_file)

\* C38 as stated: after merge_config every default key path that the user
\* configuration does not mention holds its default value, every leaf of the
\* user configuration holds the user's value, unknown keys are kept, and a
\* second merge of the same user configuration changes nothing
C38_MergeAsStated ==
    [][MergeStep =>
         LET u == json_load(user_file) IN
         /\ \A p \in DOMAIN DefaultConfig :
                p \notin DOMAIN u => (p \in DOMAIN config' /\ config'[p] = DefaultConfig[p])
         /\ UserWins(DefaultConfig, u, config')]_vars

\* C38 amended: the same, where the default key paths that keep their value
\* are those the user configuration does not mention and that do not lie under
\* a key to which the user configuration gives a value that is not a dict
C38_MergeOverlay ==
    [][MergeStep =>
         LET u == json_load(user_file) IN
         /\ \A p \in DOMAIN DefaultConfig :
                (p \notin DOMAIN u /\ ~UnderUserValue(u, p))
                    => (p \in DOMAIN config' /\ config'[p] = DefaultConfig[p])
         /\ UserWins(DefaultConfig, u, config')]_vars

\* C38 witness: the user file gives voice.rate and an unknown key and does not
\* mention voice.engine; after the load voice.engine holds its default,
\* voice.rate the user's value, and the unknown key is there
C38_Witness ==
    /\ last_set.stage = "reloaded"
    /\ user_file # NoFile
    /\ config = load_user_config(DefaultConfig, user_file)
    /\ << Chars("voice"), Chars("engine") >> \notin DOMAIN json_load(user_file)
    /\ get(json_load(user_file), "voice.rate", PyNone) = Scalar("200")
    /\ get(config, "voice.engine", PyNone) = Scalar("'pyttsx3'")
    /\ get(config, "voice.rate", PyNone) = Scalar("200")
    /\ get(config, "home.lights.on", PyNone) # PyNone
====
